---------------------------- MODULE Spec2Model ----------------------------
(***************************************************************************)
(* Audio Offset Manager (script.audiooffsetmanager): the event bus and its *)
(* AV-change filter, the offset policy, the seek-back policy and the       *)
(* active monitor (the polling thread), as a state machine.                *)
(*                                                                         *)
(* Two threads run the code: "cb", the host's player-callback thread, on   *)
(* which Kodi delivers one callback at a time, and "poller", the thread    *)
(* ActiveMonitor starts.  Time is the wall clock in milliseconds; it moves *)
(* in steps of 500 ms, the shortest sleep of the two policies.             *)
(*                                                                         *)
(* Python values: None is <<>> and a present value v is <<v>>; a text      *)
(* label that the code parses is the sequence of its characters.           *)
(***************************************************************************)
EXTENDS Integers, Sequences, FiniteSets, TLC

None == <<>>
Some(v) == <<v>>
Val(o) == o[1]

(***************************************************************************)
(* Bounds of the model.                                                    *)
(***************************************************************************)
\* the number of 500 ms clock steps in which the host and the user act
MaxTicks == 5

(***************************************************************************)
(* Program constants, in milliseconds.                                     *)
(***************************************************************************)
\* event_manager.py:55  current_time - start_time < 2
StartGuardMs == 2000
\* event_manager.py:58  current_time - last_av_change < 1
ChangeGuardMs == 1000
\* seek_backs.py:111  current_time - last_seek_time < 2
CooldownMs == 2000
\* seek_backs.py:198  xbmc.sleep(2000)
SettleMs == 2000
\* seek_backs.py:66  xbmc.sleep(500)
UnpauseSleepMs == 500
\* active_monitor.py:160  0.25 / 1.0 seconds
PollFastMs == 250
PollSlowMs == 1000
\* seek_backs.py:157  "playerid": 1
SeekPlayerId == 1
\* stream_info.py:138, 167  for attempt in range(10)
MaxAttempts == 10

\* one step of the clock
StepMs == UnpauseSleepMs
\* the clock at construction: time.time() is far from the epoch, so every
\* "elapsed since 0" test of the code is already past its threshold
T0 == CooldownMs

(***************************************************************************)
(* Text: str.replace, str.strip, float() and int() on character sequences. *)
(***************************************************************************)
DigitVal(c) ==
    CASE c = "0" -> 0 [] c = "1" -> 1 [] c = "2" -> 2 [] c = "3" -> 3
      [] c = "4" -> 4 [] c = "5" -> 5 [] c = "6" -> 6 [] c = "7" -> 7
      [] c = "8" -> 8 [] c = "9" -> 9 [] OTHER -> -1

IsDigit(c) == DigitVal(c) >= 0

\* F applied to the value of e
Bind(F(_), e) == CHOOSE y \in {F(x) : x \in {e}} : TRUE

\* s.replace(' s', ''): every occurrence, left to right, not overlapping;
\* the part of the result that comes from s[i..]
RECURSIVE RemoveUnitFrom(_, _)
RemoveUnitFrom(s, i) ==
    IF i > Len(s) THEN <<>>
    ELSE IF i < Len(s) /\ s[i] = " " /\ s[i + 1] = "s" THEN RemoveUnitFrom(s, i + 2)
         ELSE <<s[i]>> \o RemoveUnitFrom(s, i + 1)

RemoveSuffixUnit(s) == Bind(LAMBDA v : RemoveUnitFrom(v, 1), s)

\* str.strip() for blanks: the first and the last position that stay
RECURSIVE FirstKept(_, _)
FirstKept(s, i) == IF i <= Len(s) /\ s[i] = " " THEN FirstKept(s, i + 1) ELSE i

RECURSIVE LastKept(_, _)
LastKept(s, i) == IF i >= 1 /\ s[i] = " " THEN LastKept(s, i - 1) ELSE i

Strip(s) == Bind(LAMBDA v : SubSeq(v, FirstKept(v, 1), LastKept(v, Len(v))), s)

\* the number the digits s[1..n] write
RECURSIVE DigitsValue(_, _)
DigitsValue(s, n) == IF n = 0 THEN 0 ELSE DigitsValue(s, n - 1) * 10 + DigitVal(s[n])

AllDigits(s) == \A i \in DOMAIN s : IsDigit(s[i])

\* digits [. digits] with the point at position d (Len(u) + 1: no point)
ParseParts(u, d) ==
    LET int_part == SubSeq(u, 1, d - 1)
        frac_part == SubSeq(u, d + 1, Len(u))
        frac3 == SubSeq(frac_part \o <<"0", "0", "0">>, 1, 3)
    IN  [ok |-> AllDigits(int_part) /\ AllDigits(frac_part)
                /\ Len(int_part) + Len(frac_part) > 0,
         neg |-> FALSE,
         whole |-> IF AllDigits(int_part) THEN DigitsValue(int_part, Len(int_part)) ELSE 0,
         milli |-> IF AllDigits(frac3) THEN DigitsValue(frac3, 3) ELSE 0]

ParseUnsigned(u) ==
    LET dots == {i \in DOMAIN u : u[i] = "."}
    IN  Bind(LAMBDA d : ParseParts(u, d),
             IF dots = {} THEN Len(u) + 1 ELSE CHOOSE i \in dots : \A j \in dots : i <= j)

\* float(text) for decimal notation: [sign] digits [. digits], blanks around it
\* allowed; anything else is a ValueError (ok = FALSE).  The decimal written is
\* sign * (whole + milli / 1000 + a remainder below 1/1000).  (float() also
\* takes exponents, underscores, inf and nan; no text of the model has them.)
ParseSigned(t) ==
    LET signed == Len(t) > 0 /\ t[1] \in {"+", "-"}
    IN  [Bind(ParseUnsigned, IF signed THEN Tail(t) ELSE t) EXCEPT
             !.neg = signed /\ t[1] = "-"]

ParseFloat(text) == Bind(ParseSigned, Strip(text))

\* <<2^1 mod 1000, ..., 2^x mod 1000>>
RECURSIVE Pow2ModUpTo(_)
Pow2ModUpTo(x) ==
    IF x = 0 THEN <<>>
    ELSE Bind(LAMBDA s : Append(s, IF x = 1 THEN 2 ELSE (2 * s[x - 1]) % 1000),
              Pow2ModUpTo(x - 1))

\* the powers of two that scale a 53-bit mantissa: 52 bits and up to 12 more
\* for values down to 2^-12
Pow2ModTable == Pow2ModUpTo(52 + 12)

\* 2^x mod 1000, for 1 <= x <= 64
Pow2Mod(x) == Pow2ModTable[x]

\* the largest k with 2^k <= n, for n >= 1
RECURSIVE FloorLog2(_)
FloorLog2(n) == IF n < 2 THEN 0 ELSE 1 + FloorLog2(n \div 2)

\* the least j with n * 2^j >= 1000, counted from j, for n >= 1
RECURSIVE ShiftToUnit(_, _)
ShiftToUnit(n, j) == IF n >= 1000 THEN j ELSE ShiftToUnit(2 * n, j + 1)

\* the binary exponent e of n / 1000: 2^e <= n / 1000 < 2^(e + 1)
BinadeOf(n) == IF n >= 1000 THEN FloorLog2(n \div 1000) ELSE 0 - ShiftToUnit(n, 0)

\* int(float(text) * 1000) for the decimal n / 1000, n >= 0, in IEEE double
\* arithmetic.  float() rounds n / 1000 to the nearest 53-bit value
\* M * 2^(e - 52); M * 1000 differs from n * 2^(52 - e) by less than 500, and
\* by -rem when M was rounded down.  The product is rounded to 53 bits again,
\* to a multiple of 2^(k - e) (half of it just below a power of two), and
\* int() truncates: the result is n - 1 when the product stays below n.
FloatMillis(n) ==
    IF n = 0 THEN 0
    ELSE LET k == FloorLog2(n)
             e == BinadeOf(n)
             half == 2 ^ (k - e - 1)
             below == IF 2 ^ k = n THEN half \div 2 ELSE half
         IN  Bind(LAMBDA rem : IF rem > 0 /\ rem < 500 /\ rem > below THEN n - 1 ELSE n,
                  ((n % 1000) * Pow2Mod(52 - e)) % 1000)

\* int(f * 1000) of a parsed float
Millis(f) ==
    IF ~f.ok THEN None
    ELSE Some(IF f.neg THEN 0 - Bind(FloatMillis, f.whole * 1000 + f.milli)
              ELSE Bind(FloatMillis, f.whole * 1000 + f.milli))

\* ActiveMonitor.convert_delay_to_ms: int(float(delay_str.replace(' s', '')) * 1000);
\* None for None (AttributeError) and for text float() rejects (ValueError)
convert_delay_to_ms(delay_str) ==
    IF delay_str = None THEN None
    ELSE Bind(Millis, ParseFloat(RemoveSuffixUnit(Val(delay_str))))

(***************************************************************************)
(* SettingsManager: the persisted settings are a function from the ids the *)
(* addon's settings define to their values.  Reading an id that is not     *)
(* defined raises inside Kodi and yields the default; storing to one       *)
(* raises and yields False.                                                *)
(***************************************************************************)
\* Settings.getBool / getInt / getString(setting_id): the value, or an
\* exception for an id the addon's settings do not define
SettingsGet(st, setting_id) ==
    IF setting_id \in DOMAIN st
    THEN [raised |-> FALSE, value |-> Some(st[setting_id])]
    ELSE [raised |-> TRUE, value |-> None]

\* SettingsManager._safe_setting_operation: try: return operation(setting_id)
\* except: return default_value
safe_setting_operation(outcome, default_value) ==
    IF outcome.raised THEN default_value ELSE Val(outcome.value)

get_setting_boolean(st, setting_id) ==
    safe_setting_operation(SettingsGet(st, setting_id), FALSE)

\* a get_setting_integer whose default is -1
get_setting_integer_minus(st, setting_id) ==
    safe_setting_operation(SettingsGet(st, setting_id), -1)

get_setting_integer(st, setting_id) ==
    safe_setting_operation(SettingsGet(st, setting_id), 0)

get_setting_string(st, setting_id) ==
    safe_setting_operation(SettingsGet(st, setting_id), "")

\* Settings.setBool / setInt / setString(setting_id, value): the settings
\* after it, or an exception for an id the addon's settings do not define
SettingsSet(st, setting_id, value) ==
    IF setting_id \in DOMAIN st
    THEN [raised |-> FALSE, settings |-> [st EXCEPT ![setting_id] = value]]
    ELSE [raised |-> TRUE, settings |-> st]

\* SettingsManager._safe_setting_store: try: operation(setting_id, value);
\* return True except: return False
safe_setting_store(outcome) == ~outcome.raised

\* the settings after store_setting_boolean / store_setting_integer
store_setting(st, setting_id, value) == SettingsSet(st, setting_id, value).settings

\* the boolean the store returns
store_ok(st, setting_id) == safe_setting_store(SettingsSet(st, setting_id, FALSE))

(***************************************************************************)
(* StreamInfo: the resolver.  A host state h is what Kodi answers:         *)
(*   h.player_replies  the player id of Player.GetActivePlayers, attempt   *)
(*                     by attempt (-1: no active player); the last reply   *)
(*                     repeats                                             *)
(*   h.audio_replies   the currentaudiostream of Player.GetProperties,     *)
(*                     attempt by attempt: [ok, codec, channels]           *)
(*   h.fps, h.hdr, h.hdr_fallback, h.gamut   the info labels               *)
(***************************************************************************)
valid_audio_formats == {"truehd", "eac3", "ac3", "dtsx", "dtshd_ma", "dca", "pcm"}
valid_hdr_types == {"dolbyvision", "hdr10", "hdr10plus", "hlg", "sdr"}
valid_fps_types == {23, 24, 25, 29, 30, 50, 59, 60}

hdr_label == "Player.Process(video.source.hdr.type)"
gamut_label == "Player.Process(amlogic.eoft_gamut)"

\* str.lower() on the labels and values the model uses
Lower(v) ==
    CASE v = "Player.Process(video.source.hdr.type)" -> "player.process(video.source.hdr.type)"
      [] v = "Player.Process(amlogic.eoft_gamut)" -> "player.process(amlogic.eoft_gamut)"
      [] v = "HDR10" -> "hdr10"
      [] v = "HDR10+" -> "hdr10+"
      [] v = "HLG HDR" -> "hlg hdr"
      [] v = "Dolby Vision" -> "dolby vision"
      [] v = "HLG-BT2020" -> "hlg-bt2020"
      [] OTHER -> v

\* value.replace('+', 'plus').replace(' ', '') on lower-case text
ReplacePlusAndBlanks(v) ==
    CASE v = "hdr10+" -> "hdr10plus"
      [] v = "hlg hdr" -> "hlghdr"
      [] v = "dolby vision" -> "dolbyvision"
      [] v = " " -> ""
      [] OTHER -> v

\* codec.replace('pt-', '')
RemovePassthroughPrefix(codec) ==
    CASE codec = "pt-truehd" -> "truehd"
      [] codec = "pt-eac3" -> "eac3"
      [] codec = "pt-ac3" -> "ac3"
      [] codec = "pt-dtshd_ma" -> "dtshd_ma"
      [] codec = "pt-dca" -> "dca"
      [] OTHER -> codec

\* 'hlg' in gamut_info.lower()
ContainsHlg(v) == Lower(v) \in {"hlg", "hlg-bt2020"}

\* value.strip() == ''
IsBlank(v) == v \in {"", " "}

is_valid_infolabel(label, value) ==
    /\ value # ""
    /\ ~IsBlank(value)
    /\ Lower(value) # Lower(label)

ReplyAt(replies, attempt) ==
    IF attempt <= Len(replies) THEN replies[attempt] ELSE replies[Len(replies)]

\* a retrieval that gives up one query early
RECURSIVE PlayerIdEarly(_, _)
PlayerIdEarly(replies, attempt) ==
    IF attempt >= MaxAttempts THEN -1
    ELSE IF ReplyAt(replies, attempt) # -1 THEN ReplyAt(replies, attempt)
         ELSE PlayerIdEarly(replies, attempt + 1)

RECURSIVE PlayerIdFrom(_, _)
PlayerIdFrom(replies, attempt) ==
    IF attempt > MaxAttempts THEN -1
    ELSE IF ReplyAt(replies, attempt) # -1 THEN ReplyAt(replies, attempt)
         ELSE PlayerIdFrom(replies, attempt + 1)

get_player_id(h) == PlayerIdFrom(h.player_replies, 1)

\* a reclassification without the PCM fallback
ClassifyCodecKnown(codec, channels) ==
    LET audio_format == RemovePassthroughPrefix(codec)
    IN  IF audio_format = "dtshd_ma" /\ channels # None /\ Val(channels) > 6 THEN "dtsx"
        ELSE audio_format

\* the reclassification of one ready reply
ClassifyCodec(codec, channels) ==
    LET audio_format == RemovePassthroughPrefix(codec)
    IN  IF audio_format = "dtshd_ma" /\ channels # None /\ Val(channels) > 6 THEN "dtsx"
        ELSE IF audio_format \notin valid_audio_formats /\ audio_format # "unknown" THEN "pcm"
        ELSE audio_format

RECURSIVE AudioInfoFrom(_, _)
AudioInfoFrom(replies, attempt) ==
    IF attempt > MaxAttempts THEN [audio_format |-> "unknown", audio_channels |-> None]
    ELSE LET r == ReplyAt(replies, attempt)
         IN  IF r.ok /\ RemovePassthroughPrefix(r.codec) # "none"
             THEN [audio_format |-> ClassifyCodec(r.codec, r.channels),
                   audio_channels |-> r.channels]
             ELSE AudioInfoFrom(replies, attempt + 1)

get_audio_info(h) == AudioInfoFrom(h.audio_replies, 1)

\* int(float(fps_info)) and its class; the class is kept as the text the
\* setting id is formatted with ("24", "unknown", "all")
IntOf(f) == IF ~f.ok THEN None ELSE Some(IF f.neg THEN 0 - f.whole ELSE f.whole)

FpsValue(fps_info) == Bind(IntOf, ParseFloat(fps_info))

FpsClass(v) == IF v # None /\ Val(v) \in valid_fps_types THEN ToString(Val(v)) ELSE "unknown"

FpsType(fps_info) == Bind(FpsClass, FpsValue(fps_info))

\* the HDR type: the primary label, else VideoPlayer.HdrType; normalised;
\* promoted from sdr to hlg by the gamut label
HdrType(h) ==
    LET raw == IF is_valid_infolabel(hdr_label, h.hdr) THEN h.hdr ELSE h.hdr_fallback
        norm == ReplacePlusAndBlanks(Lower(raw))
        named == IF norm = "" \/ norm = Lower(hdr_label) THEN "sdr"
                 ELSE IF norm = "hlghdr" THEN "hlg" ELSE norm
        known == IF named \in valid_hdr_types THEN named ELSE "unknown"
    IN  IF known = "sdr" /\ is_valid_infolabel(gamut_label, h.gamut) /\ ContainsHlg(h.gamut)
        THEN "hlg" ELSE known

\* the settings after one gather_stream_info (stream_info.py:97-105)
SettingsAfterGather(h, st, new_install) ==
    LET s1 == store_setting(st, "platform_hdr_full", is_valid_infolabel(hdr_label, h.hdr))
        s2 == store_setting(s1, "advanced_hlg", is_valid_infolabel(gamut_label, h.gamut))
    IN  IF new_install THEN store_setting(s2, "new_install", FALSE) ELSE s2

\* a resolver that leaves the frame rate class as parsed on a first run
gather_stream_info_first_run(h, st, new_install) ==
    LET audio == get_audio_info(h)
        audio_format == IF audio.audio_format \in valid_audio_formats
                        THEN audio.audio_format ELSE "unknown"
        hdr_type == HdrType(h)
        st2 == SettingsAfterGather(h, st, new_install)
        fps_type == IF hdr_type # "unknown" /\ ~get_setting_boolean(st2, "enable_fps_" \o hdr_type)
                       /\ ~new_install
                    THEN "all" ELSE FpsType(h.fps)
    IN  [player_id |-> get_player_id(h),
         audio_format |-> audio_format,
         audio_channels |-> audio.audio_channels,
         video_fps |-> FpsValue(h.fps),
         video_fps_type |-> fps_type,
         hdr_type |-> hdr_type,
         gamut_info_valid |-> is_valid_infolabel(gamut_label, h.gamut),
         platform_hdr_full |-> is_valid_infolabel(hdr_label, h.hdr)]

\* StreamInfo.gather_stream_info: the info dictionary
gather_stream_info(h, st, new_install) ==
    LET audio == get_audio_info(h)
        audio_format == IF audio.audio_format \in valid_audio_formats
                        THEN audio.audio_format ELSE "unknown"
        hdr_type == HdrType(h)
        st2 == SettingsAfterGather(h, st, new_install)
        fps_type == IF hdr_type # "unknown" /\ ~get_setting_boolean(st2, "enable_fps_" \o hdr_type)
                    THEN "all" ELSE FpsType(h.fps)
    IN  [player_id |-> get_player_id(h),
         audio_format |-> audio_format,
         audio_channels |-> audio.audio_channels,
         video_fps |-> FpsValue(h.fps),
         video_fps_type |-> fps_type,
         hdr_type |-> hdr_type,
         gamut_info_valid |-> is_valid_infolabel(gamut_label, h.gamut),
         platform_hdr_full |-> is_valid_infolabel(hdr_label, h.hdr)]

\* stream_info.info == {} after clear_stream_info and before the first update
EmptyInfo == [x \in {} |-> 0]

\* OffsetManager._get_setting_id / ActiveMonitor._get_setting_id
get_setting_id(stream_info) ==
    stream_info.hdr_type \o "_" \o stream_info.video_fps_type \o "_" \o stream_info.audio_format


(***************************************************************************)
(* EventManager: the subscriptions AddonManager.start() makes, in order.   *)
(***************************************************************************)
\* a subscribe that puts the callback in front
subscribe_first(subs, event_name, callback) ==
    IF event_name \notin DOMAIN subs
    THEN subs @@ (event_name :> <<callback>>)
    ELSE [subs EXCEPT ![event_name] = <<callback>> \o @]

subscribe(subs, event_name, callback) ==
    IF event_name \notin DOMAIN subs
    THEN subs @@ (event_name :> <<callback>>)
    ELSE [subs EXCEPT ![event_name] = Append(@, callback)]

RECURSIVE SubscribeAll(_, _)
SubscribeAll(subs, events) ==
    IF Len(events) = 0 THEN subs
    ELSE SubscribeAll(subscribe(subs, events[1][1], events[1][2]), Tail(events))

\* OffsetManager.start: the events dictionary, in its order
OffsetManagerEvents ==
    << <<"AV_STARTED", "OffsetManager.on_av_started">>,
       <<"ON_AV_CHANGE", "OffsetManager.on_av_change">>,
       <<"PLAYBACK_STOPPED", "OffsetManager.on_playback_stopped">>,
       <<"PLAYBACK_ENDED", "OffsetManager.on_playback_stopped">> >>

\* SeekBacks.start: the events dictionary, in its order
SeekBacksEvents ==
    << <<"AV_STARTED", "SeekBacks.on_av_started">>,
       <<"ON_AV_CHANGE", "SeekBacks.on_av_change">>,
       <<"PLAYBACK_RESUMED", "SeekBacks.on_av_unpause">>,
       <<"PLAYBACK_PAUSED", "SeekBacks.on_playback_paused">>,
       <<"USER_ADJUSTMENT", "SeekBacks.on_user_adjustment">>,
       <<"PLAYBACK_STOPPED", "SeekBacks.on_playback_stopped">>,
       <<"PLAYBACK_ENDED", "SeekBacks.on_playback_stopped">> >>

\* AddonManager.start: offset_manager.start() then seek_backs.start()
Subscribers ==
    SubscribeAll(SubscribeAll([e \in {} |-> <<>>], OffsetManagerEvents), SeekBacksEvents)

\* the list publish iterates over
HandlersOf(event_name) ==
    IF event_name \in DOMAIN Subscribers THEN Subscribers[event_name] ELSE <<>>

SuppressingEvents == {"PLAYBACK_SEEK", "PLAYBACK_SEEK_CHAPTER", "PLAYBACK_SPEED_CHANGED"}

(***************************************************************************)
(* The state.                                                              *)
(***************************************************************************)
VARIABLES
    now,                 \* time.time(), in ms
    horizon,             \* the host and the user act while now < horizon
    streams,             \* the host states a stream start or change may bring
    host,                \* what Kodi answers the resolver at present
    labels,              \* the Player.AudioDelay texts the slider may show
    dialogs,             \* the dialog ids the user may bring up
    settings,            \* the persisted settings
    playback_state,      \* EventManager.playback_state
    seek_state,          \* SeekBacks.playback_state
    info,                \* StreamInfo.info
    new_install,         \* StreamInfo.new_install
    active_monitor,      \* OffsetManager.active_monitor: None or the monitor
    state,               \* ActiveMonitor.state
    monitor_thread,      \* ActiveMonitor.monitor_thread
    wait_time,           \* the poller's wait in progress, in ms (0: none)
    thread,              \* per thread: where it is in the code
    hist                 \* history of the run, for stating properties

vars == <<now, horizon, streams, labels, dialogs, host, settings,
          playback_state, seek_state, info, new_install, active_monitor, state,
          monitor_thread, wait_time, thread, hist>>

envVars == <<horizon, streams, labels, dialogs>>
monitorVars == <<active_monitor, state, monitor_thread, wait_time>>

Threads == {"cb", "poller"}

AUDIO_SETTINGS_DIALOG == 10124
AUDIO_SLIDER_DIALOG == 10145
\* xbmcgui.getCurrentWindowDialogId() with no dialog shown: any other id
NoDialog == 9999

\* a thread outside publish
NoEvent == "none"
NoSeek == [event_type |-> "none", seconds |-> 0, decided_at |-> 0, paused |-> FALSE]

ThreadAt(pc0) ==
    [pc |-> pc0, event |-> NoEvent, idx |-> 0, wake |-> 0, seek |-> NoSeek,
     cmds |-> <<>>, calls |-> <<>>, local |-> None]

\* ActiveMonitor.__init__
InitialMonitorState ==
    [monitor_active |-> FALSE, playback_active |-> FALSE, audio_settings_open |-> FALSE,
     slider_was_open |-> FALSE, last_audio_delay |-> None, last_stored_delay |-> None,
     last_processed_delay |-> None]

\* av_since_seek: the onAVChange callbacks since the last seek, seek-chapter or
\*   speed-change publish (-1: there was none; 2: two or more)
\* last_seek_decided_at: when the seek-back that issued the last Player.Seek
\*   was decided
\* pause_handled: PLAYBACK_PAUSED is the last of PLAYBACK_PAUSED, PLAYBACK_RESUMED,
\*   AV_STARTED, PLAYBACK_STOPPED and PLAYBACK_ENDED that SeekBacks has handled
\* stop_returned: ActiveMonitor.stop() has returned and no monitor was started since
\* committed: the last value the running monitor has stored and announced
\* moved: the slider is observed open, and since it was observed open and the
\*   stream info was last changed, the sampled delay has changed
\* resolved: the first-run flags that the resolutions since the stream info
\*   was last cleared have found, the first two of them
\* first_run: the new_install setting was set when the Offset Policy began to
\*   handle the AV event whose publish is in progress
\* since_stop: SeekBacks has handled PLAYBACK_STOPPED or PLAYBACK_ENDED and has
\*   evaluated no seek-back trigger since
\* in_settings: the last tick of the running monitor has observed the audio
\*   settings dialog, or the slider after ticks for which this was true: the
\*   user has entered the settings dialog and has not left it and the slider
\* aborted: Kodi has requested the addon to stop (xbmc.Monitor.abortRequested())
NoHistory ==
    [av_since_seek |-> -1, last_seek_decided_at |-> None, pause_handled |-> FALSE,
     stop_returned |-> FALSE, committed |-> None, moved |-> FALSE, resolved |-> <<>>,
     first_run |-> FALSE, since_stop |-> FALSE,
     in_settings |-> FALSE, aborted |-> FALSE]

\* hist.moved after a tick
MovedAfter(s, s2, moved) ==
    /\ s2.slider_was_open
    /\ s.slider_was_open
    /\ moved \/ s2.last_audio_delay # s.last_audio_delay

\* hist.in_settings after a tick
InSettingsAfter(s2, in_settings) ==
    s2.audio_settings_open \/ (s2.slider_was_open /\ in_settings)

\* hist.moved after the stream info is set
MovedUnder(stream_info, stream_info2, moved) == moved /\ stream_info2 = stream_info

(***************************************************************************)
(* Host states and configurations of the checked runs.                     *)
(***************************************************************************)
Chars24 == <<"2", "4", ".", "0", "0", "0">>
Chars23 == <<"2", "3", ".", "9", "7", "6">>

AudioReady(codec, channels) == <<[ok |-> TRUE, codec |-> codec, channels |-> Some(channels)]>>

\* HDR10, 24 fps, E-AC3 on player 1
StreamA ==
    [player_replies |-> <<1>>, audio_replies |-> AudioReady("eac3", 6), fps |-> Chars24,
     hdr |-> "hdr10", hdr_fallback |-> "", gamut |-> ""]
\* the same at 23.976 fps
StreamB == [StreamA EXCEPT !.fps = Chars23]
\* the audio stream never gets ready: audio_format unknown
StreamNoAudio == [StreamA EXCEPT !.audio_replies = AudioReady("none", 0)]

BaseSettings ==
    [new_install |-> FALSE, platform_hdr_full |-> FALSE, advanced_hlg |-> FALSE,
     enable_hdr10 |-> TRUE, enable_fps_hdr10 |-> TRUE, enable_active_monitoring |-> TRUE,
     enable_seek_back_resume |-> TRUE, seek_back_resume_seconds |-> 4,
     enable_seek_back_adjust |-> TRUE, seek_back_adjust_seconds |-> 3,
     enable_seek_back_unpause |-> TRUE, seek_back_unpause_seconds |-> 2,
     enable_seek_back_change |-> TRUE, seek_back_change_seconds |-> 5,
     hdr10_24_eac3 |-> 120, hdr10_23_eac3 |-> -50, hdr10_all_eac3 |-> 0]


(***************************************************************************)
(* A thread's position.  pc is the place in the code; event and idx are    *)
(* the publish in progress and the handler it is at; wake is the end of    *)
(* the sleep in progress; seek is the seek-back decided and not yet        *)
(* executed; cmds are the JSON-RPC commands the thread has issued during   *)
(* the publish; calls are the handler calls and returns of the publish;    *)
(* local is the stream info dictionary a local variable of the thread      *)
(* refers to.                                                              *)
(***************************************************************************)
Handler(th) == HandlersOf(th.event)[th.idx]

Called(th) == [th EXCEPT !.calls = Append(@, <<"call", Handler(th)>>)]

\* the handler in progress returns to the loop of publish
Returned(th) ==
    [th EXCEPT !.pc = "publish", !.idx = @ + 1, !.wake = 0, !.seek = NoSeek,
               !.calls = Append(@, <<"return", Handler(th)>>)]

\* publish(event_name) begins: the loop is at the first subscriber
Publishing(th, event_name) ==
    [th EXCEPT !.pc = "publish", !.event = event_name, !.idx = 1,
               !.cmds = <<>>, !.calls = <<>>]

AtHandler(t, names) ==
    /\ thread[t].pc = "publish"
    /\ thread[t].idx <= Len(HandlersOf(thread[t].event))
    /\ Handler(thread[t]) \in names

SetAudioDelayCmd(player_id, delay_ms) ==
    [method |-> "Player.SetAudioDelay", playerid |-> player_id,
     value |-> [num |-> delay_ms, den |-> 1000]]

SeekCmd(seconds) ==
    [method |-> "Player.Seek", playerid |-> SeekPlayerId,
     value |-> [num |-> 0 - seconds, den |-> 1]]

(***************************************************************************)
(* EventManager: the host callbacks.                                       *)
(***************************************************************************)
HostMayCall == thread["cb"].pc = "idle" /\ now < horizon

\* the callbacks that publish unconditionally
Callback(event_name) ==
    /\ HostMayCall
    /\ thread' = [thread EXCEPT !["cb"] = Publishing(@, event_name)]

onAVStarted ==
    /\ HostMayCall
    /\ \E h \in streams : host' = h
    /\ playback_state' = [playback_state EXCEPT !.start_time = Some(now), !.av_started = TRUE]
    /\ thread' = [thread EXCEPT !["cb"] = Publishing(@, "AV_STARTED")]
    /\ UNCHANGED <<now, envVars, settings, seek_state, info, new_install, monitorVars, hist>>

\* _should_process_av_change without the test of the time since the last change
should_process_av_change_any_interval(ps, current_time) ==
    IF ~ps.av_started THEN [result |-> FALSE, ignore_next_av |-> ps.ignore_next_av]
    ELSE IF ps.start_time # None /\ Val(ps.start_time) # 0
            /\ current_time - Val(ps.start_time) < StartGuardMs
         THEN [result |-> FALSE, ignore_next_av |-> ps.ignore_next_av]
    ELSE IF ps.ignore_next_av THEN [result |-> FALSE, ignore_next_av |-> FALSE]
    ELSE [result |-> TRUE, ignore_next_av |-> FALSE]

\* EventManager._should_process_av_change: the result and the flag it leaves
should_process_av_change(ps, current_time) ==
    IF ~ps.av_started THEN [result |-> FALSE, ignore_next_av |-> ps.ignore_next_av]
    ELSE IF ps.start_time # None /\ Val(ps.start_time) # 0
            /\ current_time - Val(ps.start_time) < StartGuardMs
         THEN [result |-> FALSE, ignore_next_av |-> ps.ignore_next_av]
    ELSE IF current_time - ps.last_av_change < ChangeGuardMs
         THEN [result |-> FALSE, ignore_next_av |-> ps.ignore_next_av]
    ELSE IF ps.ignore_next_av THEN [result |-> FALSE, ignore_next_av |-> FALSE]
    ELSE [result |-> TRUE, ignore_next_av |-> FALSE]

CountUp(n) == IF n < 0 THEN n ELSE IF n >= 2 THEN 2 ELSE n + 1

onAVChange ==
    /\ HostMayCall
    /\ LET r == should_process_av_change(playback_state, now)
       IN  /\ playback_state' =
                 [playback_state EXCEPT !.ignore_next_av = r.ignore_next_av,
                                        !.last_av_change = IF r.result THEN now ELSE @]
           /\ IF r.result
              THEN /\ \E h \in streams : host' = h
                   /\ thread' = [thread EXCEPT !["cb"] = Publishing(@, "ON_AV_CHANGE")]
              ELSE UNCHANGED <<host, thread>>
    /\ hist' = [hist EXCEPT !.av_since_seek = CountUp(@)]
    /\ UNCHANGED <<now, envVars, settings, seek_state, info, new_install, monitorVars>>

PlaybackOver(event_name) ==
    /\ Callback(event_name)
    /\ playback_state' = [playback_state EXCEPT !.start_time = None, !.av_started = FALSE]
    /\ UNCHANGED <<now, envVars, host, settings, seek_state, info, new_install, monitorVars, hist>>

onPlayBackStopped == PlaybackOver("PLAYBACK_STOPPED")
onPlayBackEnded == PlaybackOver("PLAYBACK_ENDED")

Plain(event_name) ==
    /\ Callback(event_name)
    /\ UNCHANGED <<now, envVars, host, settings, playback_state, seek_state, info,
                   new_install, monitorVars, hist>>

onPlayBackPaused == Plain("PLAYBACK_PAUSED")
onPlayBackResumed == Plain("PLAYBACK_RESUMED")
onPlayBackSeek == Plain("PLAYBACK_SEEK")
onPlayBackSeekChapter == Plain("PLAYBACK_SEEK_CHAPTER")
onPlayBackSpeedChanged == Plain("PLAYBACK_SPEED_CHANGED")


(***************************************************************************)
(* OffsetManager.                                                          *)
(***************************************************************************)
HasUnknown(stream_info) ==
    \E key \in {"hdr_type", "audio_format", "video_fps_type"} :
        key \notin DOMAIN stream_info \/ stream_info[key] = "unknown"

\* _should_apply_offset without the test for unknown fields
should_apply_offset_any(st, stream_info) ==
    /\ ~get_setting_boolean(st, "new_install")
    /\ get_setting_boolean(st, "enable_" \o stream_info.hdr_type)

\* OffsetManager._should_apply_offset
should_apply_offset(st, stream_info) ==
    /\ ~get_setting_boolean(st, "new_install")
    /\ ~HasUnknown(stream_info)
    /\ get_setting_boolean(st, "enable_" \o stream_info.hdr_type)

\* OffsetManager.apply_audio_offset: the commands it issues
apply_audio_offset(st, stream_info) ==
    IF should_apply_offset(st, stream_info) /\ stream_info.player_id # -1
    THEN <<SetAudioDelayCmd(stream_info.player_id,
                            get_setting_integer(st, get_setting_id(stream_info)))>>
    ELSE <<>>

\* a _should_start_active_monitor that also wants a known audio format
should_start_active_monitor_audio(st, stream_info) ==
    /\ get_setting_boolean(st, "enable_active_monitoring")
    /\ get_setting_boolean(st, "enable_" \o stream_info.hdr_type)
    /\ stream_info.hdr_type # "unknown"
    /\ stream_info.video_fps_type # "unknown"
    /\ stream_info.audio_format # "unknown"

\* OffsetManager._should_start_active_monitor
should_start_active_monitor(st, stream_info) ==
    /\ get_setting_boolean(st, "enable_active_monitoring")
    /\ get_setting_boolean(st, "enable_" \o stream_info.hdr_type)
    /\ stream_info.hdr_type # "unknown"
    /\ stream_info.video_fps_type # "unknown"

\* ActiveMonitor._validate_stream_info
validate_stream_info(stream_info) == ~HasUnknown(stream_info)

\* _handle_av_event, first call: stream_info.update_stream_info()
OffsetUpdate(t) ==
    /\ AtHandler(t, {"OffsetManager.on_av_started", "OffsetManager.on_av_change"})
    /\ info' = gather_stream_info(host, settings, new_install)
    /\ settings' = SettingsAfterGather(host, settings, new_install)
    /\ new_install' = FALSE
    /\ thread' = [thread EXCEPT ![t] = [Called(@) EXCEPT !.pc = "om_apply"]]
    /\ hist' = [hist EXCEPT !.moved = MovedUnder(info, info', @),
                            !.first_run = get_setting_boolean(settings, "new_install")]
    /\ UNCHANGED <<now, envVars, host, playback_state, seek_state, monitorVars>>

\* _handle_av_event, second call: apply_audio_offset()
OffsetApply(t) ==
    /\ thread[t].pc = "om_apply"
    /\ thread' = [thread EXCEPT ![t] =
                     [@ EXCEPT !.pc = "om_manage",
                               !.cmds = @ \o apply_audio_offset(settings, info)]]
    /\ UNCHANGED <<now, envVars, host, settings, playback_state, seek_state, info,
                   new_install, monitorVars, hist>>

\* ActiveMonitor._initialize_monitoring on a new ActiveMonitor: the state it
\* leaves, given the stream info and the settings after its update_stream_info
initialize_monitoring(st, stream_info) ==
    LET armed == [InitialMonitorState EXCEPT !.monitor_active = TRUE, !.playback_active = TRUE]
        stored == Some(get_setting_integer(st, get_setting_id(stream_info)))
    IN  IF validate_stream_info(stream_info)
        THEN [armed EXCEPT !.last_stored_delay = stored, !.last_processed_delay = stored]
        ELSE armed

\* a join that does not wait for the thread
join_nowait(th) == TRUE

\* monitor_thread.join(): returns once the thread has ended
join(th) == th.pc = "dead"

\* a stop_active_monitor that returns without stopping the monitor
StopActiveMonitorIdle(t, th) ==
    /\ thread' = [thread EXCEPT ![t] = Returned(th)]
    /\ UNCHANGED monitorVars

\* OffsetManager.stop_active_monitor, up to the join of ActiveMonitor._cleanup_monitoring
StopActiveMonitor(t, th) ==
    IF active_monitor = None
    THEN /\ thread' = [thread EXCEPT ![t] = Returned(th)]
         /\ UNCHANGED monitorVars
    ELSE IF state.monitor_active
    THEN /\ state' = [state EXCEPT !.monitor_active = FALSE, !.playback_active = FALSE]
         /\ thread' = [thread EXCEPT ![t] = [th EXCEPT !.pc = "om_join"]]
         /\ UNCHANGED <<active_monitor, monitor_thread, wait_time>>
    ELSE /\ active_monitor' = None
         /\ thread' = [thread EXCEPT ![t] = Returned(th)]
         /\ UNCHANGED <<state, monitor_thread, wait_time>>

\* a manage_active_monitor whose start_active_monitor does not test for an
\* existing monitor
OffsetManageRestart(t) ==
    /\ thread[t].pc = "om_manage"
    /\ IF should_start_active_monitor(settings, info)
       THEN IF TRUE
            THEN LET st2 == SettingsAfterGather(host, settings, new_install)
                     info2 == gather_stream_info(host, settings, new_install)
                 IN  /\ active_monitor' = Some("ActiveMonitor")
                     /\ info' = info2
                     /\ settings' = st2
                     /\ new_install' = FALSE
                     /\ state' = initialize_monitoring(st2, info2)
                     /\ monitor_thread' = Some("Thread")
                     /\ wait_time' = 0
                     /\ thread' = [thread EXCEPT ![t] = Returned(@),
                                                 !["poller"] = ThreadAt("loop")]
                     /\ hist' = [hist EXCEPT !.stop_returned = FALSE, !.moved = FALSE,
                                                 !.in_settings = FALSE]
            ELSE /\ thread' = [thread EXCEPT ![t] = Returned(@)]
                 /\ UNCHANGED <<info, settings, new_install, monitorVars, hist>>
       ELSE /\ StopActiveMonitor(t, thread[t])
            /\ UNCHANGED <<info, settings, new_install, hist>>
    /\ UNCHANGED <<now, envVars, host, playback_state, seek_state>>

\* _handle_av_event, third call: manage_active_monitor()
OffsetManage(t) ==
    /\ thread[t].pc = "om_manage"
    /\ IF should_start_active_monitor(settings, info)
       THEN IF active_monitor = None
            THEN LET st2 == SettingsAfterGather(host, settings, new_install)
                     info2 == gather_stream_info(host, settings, new_install)
                 IN  /\ active_monitor' = Some("ActiveMonitor")
                     /\ info' = info2
                     /\ settings' = st2
                     /\ new_install' = FALSE
                     /\ state' = initialize_monitoring(st2, info2)
                     /\ monitor_thread' = Some("Thread")
                     /\ wait_time' = 0
                     /\ thread' = [thread EXCEPT ![t] = Returned(@),
                                                 !["poller"] = ThreadAt("loop")]
                     /\ hist' = [hist EXCEPT !.stop_returned = FALSE, !.moved = FALSE,
                                                 !.in_settings = FALSE]
            ELSE /\ thread' = [thread EXCEPT ![t] = Returned(@)]
                 /\ UNCHANGED <<info, settings, new_install, monitorVars, hist>>
       ELSE /\ StopActiveMonitor(t, thread[t])
            /\ UNCHANGED <<info, settings, new_install, hist>>
    /\ UNCHANGED <<now, envVars, host, playback_state, seek_state>>

\* OffsetManager.on_playback_stopped, first call: clear_stream_info()
OffsetStopped(t) ==
    /\ AtHandler(t, {"OffsetManager.on_playback_stopped"})
    /\ info' = EmptyInfo
    /\ thread' = [thread EXCEPT ![t] = [Called(@) EXCEPT !.pc = "om_stop"]]
    /\ hist' = [hist EXCEPT !.moved = MovedUnder(info, info', @)]
    /\ UNCHANGED <<now, envVars, host, settings, playback_state, seek_state, new_install,
                   monitorVars>>

\* OffsetManager.on_playback_stopped, second call: stop_active_monitor()
OffsetStopMonitor(t) ==
    /\ thread[t].pc = "om_stop"
    /\ StopActiveMonitor(t, thread[t])
    /\ UNCHANGED <<now, envVars, host, settings, playback_state, seek_state, info,
                   new_install, hist>>

\* the join returns; stop_active_monitor drops the monitor
OffsetJoined(t) ==
    /\ thread[t].pc = "om_join"
    /\ monitor_thread = Some("Thread")
    /\ join(thread["poller"])
    /\ active_monitor' = None
    /\ monitor_thread' = None
    /\ state' = InitialMonitorState
    /\ wait_time' = 0
    /\ thread' = [thread EXCEPT ![t] = Returned(@)]
    /\ hist' = [hist EXCEPT !.stop_returned = TRUE, !.committed = None, !.moved = FALSE,
                            !.in_settings = FALSE]
    /\ UNCHANGED <<now, envVars, host, settings, playback_state, seek_state, info,
                   new_install>>

(***************************************************************************)
(* SeekBacks.                                                              *)
(***************************************************************************)
\* _should_perform_seek_back without the test of the paused flag
should_perform_seek_back_unpaused(ss, st, current_time, event_type) ==
    LET seek_seconds == get_setting_integer(st, "seek_back_" \o event_type \o "_seconds")
    IN  IF current_time - ss.last_seek_time < CooldownMs THEN [should |-> FALSE, seconds |-> 0]
        ELSE IF ~get_setting_boolean(st, "enable_seek_back_" \o event_type)
             THEN [should |-> FALSE, seconds |-> 0]
        ELSE IF seek_seconds <= 0 THEN [should |-> FALSE, seconds |-> 0]
        ELSE [should |-> TRUE, seconds |-> seek_seconds]

\* a _should_perform_seek_back that lets a duration of 0 seconds through
should_perform_seek_back_zero(ss, st, current_time, event_type) ==
    LET seek_seconds == get_setting_integer(st, "seek_back_" \o event_type \o "_seconds")
    IN  IF current_time - ss.last_seek_time < CooldownMs THEN [should |-> FALSE, seconds |-> 0]
        ELSE IF ss.paused THEN [should |-> FALSE, seconds |-> 0]
        ELSE IF ~get_setting_boolean(st, "enable_seek_back_" \o event_type)
             THEN [should |-> FALSE, seconds |-> 0]
        ELSE IF seek_seconds < 0 THEN [should |-> FALSE, seconds |-> 0]
        ELSE [should |-> TRUE, seconds |-> seek_seconds]

\* SeekBacks._should_perform_seek_back
should_perform_seek_back(ss, st, current_time, event_type) ==
    LET seek_seconds == get_setting_integer(st, "seek_back_" \o event_type \o "_seconds")
    IN  IF current_time - ss.last_seek_time < CooldownMs THEN [should |-> FALSE, seconds |-> 0]
        ELSE IF ss.paused THEN [should |-> FALSE, seconds |-> 0]
        ELSE IF ~get_setting_boolean(st, "enable_seek_back_" \o event_type)
             THEN [should |-> FALSE, seconds |-> 0]
        ELSE IF seek_seconds <= 0 THEN [should |-> FALSE, seconds |-> 0]
        ELSE [should |-> TRUE, seconds |-> seek_seconds]

\* perform_seek_back without the sleep before the seek
perform_seek_back_at_once(th, ss, event_type) ==
    LET d == should_perform_seek_back(ss, settings, now, event_type)
    IN  IF d.should
        THEN [th EXCEPT !.pc = "settle", !.wake = now,
                        !.seek = [event_type |-> event_type, seconds |-> d.seconds,
                                  decided_at |-> now, paused |-> ss.paused]]
        ELSE Returned(th)

\* perform_seek_back up to xbmc.sleep(2000): the thread after the decision
perform_seek_back(th, ss, event_type) ==
    LET d == should_perform_seek_back(ss, settings, now, event_type)
    IN  IF d.should
        THEN [th EXCEPT !.pc = "settle", !.wake = now + SettleMs,
                        !.seek = [event_type |-> event_type, seconds |-> d.seconds,
                                  decided_at |-> now, paused |-> ss.paused]]
        ELSE Returned(th)

SeekStarted(t) ==
    /\ AtHandler(t, {"SeekBacks.on_av_started"})
    /\ seek_state' = [seek_state EXCEPT !.paused = FALSE]
    /\ thread' = [thread EXCEPT ![t] = perform_seek_back(Called(@), seek_state', "resume")]
    /\ hist' = [hist EXCEPT !.pause_handled = FALSE, !.since_stop = FALSE]
    /\ UNCHANGED <<now, envVars, host, settings, playback_state, info, new_install,
                   monitorVars>>

SeekChange(t) ==
    /\ AtHandler(t, {"SeekBacks.on_av_change"})
    /\ thread' = [thread EXCEPT ![t] = perform_seek_back(Called(@), seek_state, "adjust")]
    /\ hist' = [hist EXCEPT !.since_stop = FALSE]
    /\ UNCHANGED <<now, envVars, host, settings, playback_state, seek_state, info,
                   new_install, monitorVars>>

\* on_av_unpause up to xbmc.sleep(500)
SeekUnpause(t) ==
    /\ AtHandler(t, {"SeekBacks.on_av_unpause"})
    /\ thread' = [thread EXCEPT ![t] =
                     [Called(@) EXCEPT !.pc = "unpause_sleep", !.wake = now + UnpauseSleepMs]]
    /\ UNCHANGED <<now, envVars, host, settings, playback_state, seek_state, info,
                   new_install, monitorVars, hist>>

\* on_av_unpause after the sleep
SeekUnpaused(t) ==
    /\ thread[t].pc = "unpause_sleep"
    /\ now >= thread[t].wake
    /\ seek_state' = [seek_state EXCEPT !.paused = FALSE]
    /\ thread' = [thread EXCEPT ![t] = perform_seek_back(@, seek_state', "unpause")]
    /\ hist' = [hist EXCEPT !.pause_handled = FALSE, !.since_stop = FALSE]
    /\ UNCHANGED <<now, envVars, host, settings, playback_state, info, new_install,
                   monitorVars>>

SeekPaused(t) ==
    /\ AtHandler(t, {"SeekBacks.on_playback_paused"})
    /\ seek_state' = [seek_state EXCEPT !.paused = TRUE]
    /\ thread' = [thread EXCEPT ![t] = Returned(Called(@))]
    /\ hist' = [hist EXCEPT !.pause_handled = TRUE]
    /\ UNCHANGED <<now, envVars, host, settings, playback_state, info, new_install,
                   monitorVars>>

\* an on_playback_stopped that resets the paused flag only
SeekStoppedPause(t) ==
    /\ AtHandler(t, {"SeekBacks.on_playback_stopped"})
    /\ seek_state' = [seek_state EXCEPT !.paused = FALSE]
    /\ thread' = [thread EXCEPT ![t] = Returned(Called(@))]
    /\ hist' = [hist EXCEPT !.pause_handled = FALSE, !.since_stop = TRUE]
    /\ UNCHANGED <<now, envVars, host, settings, playback_state, info, new_install,
                   monitorVars>>

SeekStopped(t) ==
    /\ AtHandler(t, {"SeekBacks.on_playback_stopped"})
    /\ seek_state' = [paused |-> FALSE, last_seek_time |-> 0]
    /\ thread' = [thread EXCEPT ![t] = Returned(Called(@))]
    /\ hist' = [hist EXCEPT !.pause_handled = FALSE, !.since_stop = TRUE]
    /\ UNCHANGED <<now, envVars, host, settings, playback_state, info, new_install,
                   monitorVars>>

SeekUserAdjustment(t) ==
    /\ AtHandler(t, {"SeekBacks.on_user_adjustment"})
    /\ thread' = [thread EXCEPT ![t] =
                     IF get_setting_boolean(settings, "enable_seek_back_change")
                     THEN perform_seek_back(Called(@), seek_state, "change")
                     ELSE Returned(Called(@))]
    /\ hist' = [hist EXCEPT !.since_stop = FALSE]
    /\ UNCHANGED <<now, envVars, host, settings, playback_state, seek_state, info,
                   new_install, monitorVars>>

\* an _execute_seek_command that sets last_seek_time whatever the answer is
SeekCommandStamped(t, success) ==
    /\ thread[t].pc = "settle"
    /\ now >= thread[t].wake
    /\ seek_state' = [seek_state EXCEPT !.last_seek_time = now]
    /\ thread' = [thread EXCEPT ![t] =
                     Returned([@ EXCEPT !.cmds = Append(@, SeekCmd(thread[t].seek.seconds))])]
    /\ hist' = [hist EXCEPT !.last_seek_decided_at = Some(thread[t].seek.decided_at)]
    /\ UNCHANGED <<now, envVars, host, settings, playback_state, info, new_install, monitorVars>>

\* perform_seek_back after the sleep: _execute_seek_command, to which the host
\* answers with a result (success) or with an error or an exception
SeekCommand(t, success) ==
    /\ thread[t].pc = "settle"
    /\ now >= thread[t].wake
    /\ seek_state' = [seek_state EXCEPT !.last_seek_time = IF success THEN now ELSE @]
    /\ thread' = [thread EXCEPT ![t] =
                     Returned([@ EXCEPT !.cmds = Append(@, SeekCmd(thread[t].seek.seconds))])]
    /\ hist' = [hist EXCEPT !.last_seek_decided_at = Some(thread[t].seek.decided_at)]
    /\ UNCHANGED <<now, envVars, host, settings, playback_state, info, new_install, monitorVars>>

SeekExecute(t) == \E success \in BOOLEAN : SeekCommand(t, success)


(***************************************************************************)
(* ActiveMonitor: the polling thread.                                      *)
(***************************************************************************)
\* _handle_dialog_state, the settings dialog part
AfterSettingsDialog(s, current_dialog_id) ==
    IF current_dialog_id = AUDIO_SETTINGS_DIALOG
    THEN IF ~s.audio_settings_open
         THEN [s EXCEPT !.audio_settings_open = TRUE, !.last_processed_delay = None]
         ELSE s
    ELSE IF s.audio_settings_open THEN [s EXCEPT !.audio_settings_open = FALSE] ELSE s

\* a polling rate that follows the settings dialog alone
WaitTimeSettings(s, slider_is_open) ==
    IF s.audio_settings_open THEN PollFastMs ELSE PollSlowMs

\* _handle_dialog_state: the polling rate it returns
WaitTime(s, slider_is_open) ==
    IF s.audio_settings_open \/ slider_is_open THEN PollFastMs ELSE PollSlowMs

\* a _process_final_delay that does not look at the last-processed marker
IsNewDelayUnmarked(s) == convert_delay_to_ms(s.last_audio_delay) # None

\* _process_final_delay: the value is one to process
IsNewDelay(s) ==
    /\ convert_delay_to_ms(s.last_audio_delay) # None
    /\ convert_delay_to_ms(s.last_audio_delay) # s.last_processed_delay

\* process_audio_delay_change: the value is to be stored and announced
IsDelayChange(s, st, stream_info) ==
    /\ convert_delay_to_ms(s.last_audio_delay) # None
    /\ validate_stream_info(stream_info)
    /\ Val(convert_delay_to_ms(s.last_audio_delay))
           # get_setting_integer(st, get_setting_id(stream_info))

\* the dialog ids a tick may read: the user opens and closes dialogs while
\* now < horizon, and no dialog is shown afterwards
DialogsNow == IF now < horizon THEN dialogs ELSE {NoDialog}

\* one pass of the loop body with the dialog id and the Player.AudioDelay text
\* it reads, up to the publish of USER_ADJUSTMENT if there is one
HandleDialogState(current_dialog_id, current_delay) ==
    LET slider_is_open == current_dialog_id = AUDIO_SLIDER_DIALOG
        s1 == AfterSettingsDialog(state, current_dialog_id)
        current_delay_ms == convert_delay_to_ms(s1.last_audio_delay)
    IN  IF slider_is_open
        THEN /\ state' = [s1 EXCEPT !.slider_was_open = TRUE,
                                    !.last_audio_delay = Some(current_delay)]
             /\ wait_time' = WaitTime(s1, TRUE)
             /\ thread' = [thread EXCEPT !["poller"].pc = "loop"]
             /\ UNCHANGED settings
        ELSE IF ~s1.slider_was_open
        THEN /\ state' = s1
             /\ wait_time' = WaitTime(s1, FALSE)
             /\ thread' = [thread EXCEPT !["poller"].pc = "loop"]
             /\ UNCHANGED settings
        ELSE IF IsNewDelay(s1) /\ IsDelayChange(s1, settings, info)
        THEN /\ state' = [s1 EXCEPT !.slider_was_open = FALSE]
             /\ settings' = store_setting(settings, get_setting_id(info), Val(current_delay_ms))
             /\ thread' = [thread EXCEPT !["poller"] = Publishing(@, "USER_ADJUSTMENT")]
             /\ UNCHANGED wait_time
        ELSE /\ state' = [s1 EXCEPT !.slider_was_open = FALSE,
                                    !.last_processed_delay =
                                        IF IsNewDelay(s1) THEN current_delay_ms ELSE @]
             /\ wait_time' = WaitTime(s1, FALSE)
             /\ thread' = [thread EXCEPT !["poller"].pc = "loop"]
             /\ UNCHANGED settings

\* a loop that does not look at the flags
LoopConditionIgnored(s) == TRUE

\* monitor_audio_offset: the flags of the while condition
LoopCondition(s) == s.monitor_active /\ s.playback_active

\* monitor.abortRequested(), and what waitForAbort returns when the wait ends
abortRequested == hist.aborted

\* monitor_audio_offset: the thread has started, or waitForAbort(wait_time)
\* has returned False; the while condition is evaluated and the body runs
MonitorTick ==
    /\ thread["poller"].pc = "loop"
    /\ LoopCondition(state)
    /\ ~abortRequested
    /\ \E current_dialog_id \in DialogsNow :
          IF current_dialog_id = AUDIO_SLIDER_DIALOG
          THEN \E current_delay \in labels : HandleDialogState(current_dialog_id, current_delay)
          ELSE HandleDialogState(current_dialog_id, <<>>)
    /\ hist' = [hist EXCEPT
                   !.committed = IF thread'["poller"].event = "USER_ADJUSTMENT"
                                 THEN convert_delay_to_ms(state.last_audio_delay) ELSE @,
                   !.moved = MovedAfter(state, state', @),
                   !.in_settings = InSettingsAfter(state', @)]
    /\ UNCHANGED <<now, envVars, host, playback_state, seek_state, info, new_install,
                   active_monitor, monitor_thread>>

\* monitor_audio_offset: the while condition fails, or waitForAbort(wait_time)
\* has returned True, and the thread ends
MonitorExit ==
    /\ thread["poller"].pc = "loop"
    /\ ~LoopCondition(state) \/ abortRequested
    /\ thread' = [thread EXCEPT !["poller"] = ThreadAt("dead")]
    /\ UNCHANGED <<now, envVars, host, settings, playback_state, seek_state, info,
                   new_install, monitorVars, hist>>

(***************************************************************************)
(* EventManager.publish after its loop; the publisher goes on.             *)
(***************************************************************************)
LoopDone(t) ==
    /\ thread[t].pc = "publish"
    /\ thread[t].idx > Len(HandlersOf(thread[t].event))

\* a host callback returns to Kodi
PublishReturn ==
    /\ LoopDone("cb")
    /\ playback_state' =
          [playback_state EXCEPT !.ignore_next_av =
              IF thread["cb"].event \in SuppressingEvents THEN TRUE ELSE @]
    /\ hist' = [hist EXCEPT !.av_since_seek =
                                IF thread["cb"].event \in SuppressingEvents THEN 0 ELSE @,
                            !.first_run = FALSE]
    /\ thread' = [thread EXCEPT !["cb"] = ThreadAt("idle")]
    /\ UNCHANGED <<now, envVars, host, settings, seek_state, info, new_install, monitorVars>>

\* publish('USER_ADJUSTMENT') returns into process_audio_delay_change, which
\* returns into _process_final_delay and _handle_dialog_state
MonitorPublished ==
    /\ LoopDone("poller")
    /\ state' = [state EXCEPT
                   !.last_stored_delay = convert_delay_to_ms(state.last_audio_delay),
                   !.last_processed_delay = convert_delay_to_ms(state.last_audio_delay)]
    /\ wait_time' = WaitTime(state, FALSE)
    /\ thread' = [thread EXCEPT !["poller"] = ThreadAt("loop")]
    /\ UNCHANGED <<now, envVars, host, settings, playback_state, seek_state, info,
                   new_install, active_monitor, monitor_thread, hist>>

(***************************************************************************)
(* The clock.                                                              *)
(***************************************************************************)
Chars050 == <<"-", "0", ".", "0", "5", "0", " ", "s">>
Chars075 == <<"-", "0", ".", "0", "7", "5", " ", "s">>

Sleeping(th) == th.pc \in {"settle", "unpause_sleep"} /\ th.wake > now

Tick ==
    /\ now < horizon \/ \E t \in Threads : Sleeping(thread[t])
    /\ now' = now + StepMs
    /\ UNCHANGED <<envVars, host, settings, playback_state, seek_state, info, new_install,
                   monitorVars, thread, hist>>

(***************************************************************************)
(* The state after AddonManager() and AddonManager.start().                *)
(***************************************************************************)
InitWith(configs, hosts, texts, ids, ticks) ==
    /\ now = T0
    /\ horizon = T0 + ticks * StepMs
    /\ streams = hosts
    /\ host = CHOOSE h \in hosts : TRUE
    /\ labels = texts
    /\ dialogs = ids
    /\ settings \in configs
    /\ playback_state = [start_time |-> None, av_started |-> FALSE, last_av_change |-> 0,
                         ignore_next_av |-> FALSE]
    /\ seek_state = [paused |-> FALSE, last_seek_time |-> 0]
    /\ info = EmptyInfo
    /\ new_install = get_setting_boolean(settings, "new_install")
    /\ active_monitor = None
    /\ state = InitialMonitorState
    /\ monitor_thread = None
    /\ wait_time = 0
    /\ thread = [t \in Threads |-> ThreadAt(IF t = "cb" THEN "idle" ELSE "dead")]
    /\ hist = NoHistory

\* the settings of a first run
FirstRunSettings == [BaseSettings EXCEPT !.new_install = TRUE]

Init == InitWith({BaseSettings, FirstRunSettings}, {StreamA, StreamB}, {Chars050, Chars075},
                 {NoDialog, AUDIO_SLIDER_DIALOG}, MaxTicks)

\* a playback session with the user at the delay slider
Next ==
    \/ onAVStarted
    \/ onAVChange
    \/ onPlayBackStopped
    \/ onPlayBackPaused
    \/ onPlayBackResumed
    \/ OffsetUpdate("cb")
    \/ OffsetApply("cb")
    \/ OffsetManage("cb")
    \/ OffsetStopped("cb")
    \/ OffsetStopMonitor("cb")
    \/ OffsetJoined("cb")
    \/ SeekStarted("cb")
    \/ SeekChange("cb")
    \/ SeekUnpause("cb")
    \/ SeekUnpaused("cb")
    \/ SeekPaused("cb")
    \/ SeekStopped("cb")
    \/ SeekUserAdjustment("poller")
    \/ SeekExecute("cb")
    \/ SeekExecute("poller")
    \/ PublishReturn
    \/ MonitorTick
    \/ MonitorExit
    \/ MonitorPublished
    \/ Tick

Spec == Init /\ [][Next]_vars

TypeOK == thread["cb"].pc \in {"idle", "publish", "om_apply", "om_manage", "om_stop",
                                "om_join", "unpause_sleep", "settle"}


(***************************************************************************)
(* Offset Policy runs: the configurations and host states with unknown     *)
(* signature fields, the seek-backs switched off.                          *)
(***************************************************************************)
Chars48 == <<"4", "8", ".", "0", "0", "0">>

\* a frame rate outside valid_fps_types
StreamNoFps == [StreamA EXCEPT !.fps = Chars48]
\* an HDR label outside valid_hdr_types
StreamNoHdr == [StreamA EXCEPT !.hdr = "hdr"]
\* Player.GetActivePlayers never lists a player, and Player.GetProperties
\* answers an error for player -1
StreamNoPlayer ==
    [StreamA EXCEPT !.player_replies = <<-1>>,
                    !.audio_replies = <<[ok |-> FALSE, codec |-> "none", channels |-> None]>>]

QuietSettings ==
    [BaseSettings EXCEPT !.enable_seek_back_resume = FALSE, !.enable_seek_back_adjust = FALSE,
                         !.enable_seek_back_unpause = FALSE, !.enable_seek_back_change = FALSE]

OffsetConfigs ==
    {[QuietSettings EXCEPT !.new_install = n, !.enable_hdr10 = e, !.enable_fps_hdr10 = f,
                           !.enable_active_monitoring = m] :
        n \in BOOLEAN, e \in BOOLEAN, f \in BOOLEAN, m \in BOOLEAN}

InitOffset ==
    InitWith(OffsetConfigs, {StreamA, StreamNoAudio, StreamNoFps, StreamNoHdr, StreamNoPlayer},
             {Chars050}, {NoDialog, AUDIO_SLIDER_DIALOG}, MaxTicks)

NextOffset ==
    \/ onAVStarted
    \/ onAVChange
    \/ onPlayBackStopped
    \/ onPlayBackEnded
    \/ OffsetUpdate("cb")
    \/ OffsetApply("cb")
    \/ OffsetManage("cb")
    \/ OffsetStopped("cb")
    \/ OffsetStopMonitor("cb")
    \/ OffsetJoined("cb")
    \/ SeekStarted("cb")
    \/ SeekChange("cb")
    \/ SeekStopped("cb")
    \/ SeekUserAdjustment("poller")
    \/ PublishReturn
    \/ MonitorTick
    \/ MonitorExit
    \/ MonitorPublished
    \/ Tick

SpecOffset == InitOffset /\ [][NextOffset]_vars

\* the number of commands of a command list that call the method
Issued(cmds, method) == Cardinality({i \in DOMAIN cmds : cmds[i].method = method})

AvEvents == {"AV_STARTED", "ON_AV_CHANGE"}

(***************************************************************************)
(* C1.  While AV_STARTED or an accepted ON_AV_CHANGE is handled, if the    *)
(* resolved signature has hdr_type, video_fps_type or audio_format         *)
(* 'unknown', no Player.SetAudioDelay command has been issued for the      *)
(* event.                                                                  *)
(***************************************************************************)
C1_NoDelayForUnknown ==
    (thread["cb"].event \in AvEvents /\ HasUnknown(info))
        => Issued(thread["cb"].cmds, "Player.SetAudioDelay") = 0

\* apply_audio_offset has run on a signature whose audio format alone is
\* unknown, with the HDR type enabled, a player, and no first-run flag
C1_Witness ==
    /\ thread["cb"].event = "AV_STARTED"
    /\ thread["cb"].pc = "om_manage"
    /\ info # EmptyInfo
    /\ info.hdr_type = "hdr10" /\ info.video_fps_type = "24" /\ info.audio_format = "unknown"
    /\ info.player_id # -1
    /\ get_setting_boolean(settings, "enable_hdr10")
    /\ ~get_setting_boolean(settings, "new_install")

(***************************************************************************)
(* Event bus runs: every host callback, one stream, the seek-backs and the *)
(* active monitoring switched off.                                         *)
(***************************************************************************)
BusSettings == [QuietSettings EXCEPT !.enable_active_monitoring = FALSE]

InitBus == InitWith({BusSettings}, {StreamA}, {Chars050}, {NoDialog}, MaxTicks)

NextBus ==
    \/ onAVStarted
    \/ onAVChange
    \/ onPlayBackStopped
    \/ onPlayBackEnded
    \/ onPlayBackPaused
    \/ onPlayBackResumed
    \/ onPlayBackSeek
    \/ onPlayBackSeekChapter
    \/ onPlayBackSpeedChanged
    \/ OffsetUpdate("cb")
    \/ OffsetApply("cb")
    \/ OffsetManage("cb")
    \/ OffsetStopped("cb")
    \/ OffsetStopMonitor("cb")
    \/ SeekStarted("cb")
    \/ SeekChange("cb")
    \/ SeekUnpause("cb")
    \/ SeekUnpaused("cb")
    \/ SeekPaused("cb")
    \/ SeekStopped("cb")
    \/ PublishReturn
    \/ Tick

SpecBus == InitBus /\ [][NextBus]_vars

\* the acceptance rules of onAVChange other than the suppression flag
NormalRules(ps, current_time) ==
    /\ ps.av_started
    /\ ~(ps.start_time # None /\ Val(ps.start_time) # 0
         /\ current_time - Val(ps.start_time) < StartGuardMs)
    /\ ~(current_time - ps.last_av_change < ChangeGuardMs)

\* this step is an onAVChange callback that publishes ON_AV_CHANGE
PublishesAvChange == onAVChange /\ thread'["cb"].event = "ON_AV_CHANGE"

(***************************************************************************)
(* C2.  After a PLAYBACK_SEEK, PLAYBACK_SEEK_CHAPTER or                    *)
(* PLAYBACK_SPEED_CHANGED publish, the next onAVChange callback does not   *)
(* publish ON_AV_CHANGE, and every later onAVChange callback publishes     *)
(* exactly when the normal acceptance rules hold.                          *)
(***************************************************************************)
C2_SuppressNextOnly ==
    [][/\ (onAVChange /\ hist.av_since_seek = 0) => ~PublishesAvChange
       /\ (onAVChange /\ hist.av_since_seek >= 1)
              => (PublishesAvChange <=> NormalRules(playback_state, now))]_vars


Abs(n) == IF n < 0 THEN 0 - n ELSE n

(***************************************************************************)
(* C3.  Of two seek-back triggers evaluated less than 2 s apart, at most   *)
(* one issues Player.Seek, on whichever threads they are evaluated: when a *)
(* trigger issues its seek, the trigger behind the last seek issued was    *)
(* evaluated at least 2 s before or after it.                              *)
(***************************************************************************)
C3_OneSeekPerCooldown ==
    [][\A t \in Threads :
          (SeekExecute(t) /\ hist.last_seek_decided_at # None)
              => Abs(thread[t].seek.decided_at - Val(hist.last_seek_decided_at))
                     >= CooldownMs]_vars


(***************************************************************************)
(* C4.  While PLAYBACK_PAUSED is the last of PLAYBACK_PAUSED,              *)
(* PLAYBACK_RESUMED, AV_STARTED, PLAYBACK_STOPPED and PLAYBACK_ENDED that  *)
(* was handled, a seek-back trigger that is evaluated (an accepted         *)
(* ON_AV_CHANGE, a USER_ADJUSTMENT) issues no Player.Seek and schedules    *)
(* none; and no seek is ever pending that was decided with the paused flag *)
(* set.                                                                    *)
(***************************************************************************)
C4_NoSeekWhilePaused ==
    /\ [](\A t \in Threads : thread[t].pc = "settle" => ~thread[t].seek.paused)
    /\ [][\A t \in Threads :
             (hist.pause_handled /\ (SeekChange(t) \/ SeekUserAdjustment(t)))
                 => /\ thread'[t].pc # "settle"
                    /\ thread'[t].cmds = thread[t].cmds]_vars

\* an accepted ON_AV_CHANGE has been handled to the end after PLAYBACK_PAUSED,
\* with the adjust seek-back enabled and no cooldown in force, and no seek
\* was issued
C4_Witness ==
    /\ hist.pause_handled
    /\ seek_state.paused
    /\ thread["cb"].event = "ON_AV_CHANGE"
    /\ LoopDone("cb")
    /\ get_setting_boolean(settings, "enable_seek_back_adjust")
    /\ get_setting_integer(settings, "seek_back_adjust_seconds") > 0
    /\ now - seek_state.last_seek_time >= CooldownMs
    /\ Issued(thread["cb"].cmds, "Player.Seek") = 0

\* a step of the polling thread
PollerStep ==
    \/ MonitorTick
    \/ MonitorPublished
    \/ SeekUserAdjustment("poller")
    \/ SeekExecute("poller")

(***************************************************************************)
(* C5.  Once ActiveMonitor.stop() has returned (and until a new monitor is *)
(* started), the polling thread has ended and takes no step: no tick, no   *)
(* store, no USER_ADJUSTMENT publish, no handler of it.                    *)
(***************************************************************************)
C5_NoTickAfterStop ==
    /\ [](hist.stop_returned => thread["poller"].pc = "dead")
    /\ [][hist.stop_returned => ~PollerStep]_vars

\* stop() has returned during PLAYBACK_STOPPED for a poller that had stored
\* an offset
C5_Witness ==
    /\ hist.stop_returned
    /\ thread["cb"].event = "PLAYBACK_STOPPED"
    /\ thread["cb"].pc = "publish" /\ thread["cb"].idx = 2
    /\ settings.hdr10_24_eac3 # BaseSettings.hdr10_24_eac3


(***************************************************************************)
(* Fair runs: the polling thread is scheduled whenever it can take a step, *)
(* time passes, and a join returns once the thread has ended.              *)
(***************************************************************************)
PollerRuns == PollerStep \/ MonitorExit

\* the steps of Tick the user acts in, in the fair runs
LiveTicks == 3

\* no seek-back on the callback thread, the one after USER_ADJUSTMENT on the
\* polling thread
LiveSettings ==
    [BaseSettings EXCEPT !.enable_seek_back_resume = FALSE, !.enable_seek_back_adjust = FALSE,
                         !.enable_seek_back_unpause = FALSE]

InitLive ==
    InitWith({LiveSettings}, {StreamA, StreamNoFps}, {Chars050, Chars075},
             {NoDialog, AUDIO_SLIDER_DIALOG}, LiveTicks)

\* sessions that start and stop, with the user at the delay slider
NextLive ==
    \/ onAVStarted
    \/ onPlayBackStopped
    \/ OffsetUpdate("cb")
    \/ OffsetApply("cb")
    \/ OffsetManage("cb")
    \/ OffsetStopped("cb")
    \/ OffsetStopMonitor("cb")
    \/ OffsetJoined("cb")
    \/ SeekStarted("cb")
    \/ SeekStopped("cb")
    \/ SeekUserAdjustment("poller")
    \/ SeekExecute("poller")
    \/ PublishReturn
    \/ MonitorTick
    \/ MonitorExit
    \/ MonitorPublished
    \/ Tick

SpecLive ==
    /\ InitLive
    /\ [][NextLive]_vars
    /\ WF_vars(PollerRuns)
    /\ WF_vars(Tick)
    /\ WF_vars(OffsetJoined("cb"))

(***************************************************************************)
(* C6.  Whenever stop() has cleared the flags of an armed poller and waits *)
(* in the join, the polling loop eventually exits and stop() eventually    *)
(* returns, also when the poller is inside the store and the publish of    *)
(* USER_ADJUSTMENT.                                                        *)
(***************************************************************************)
C6_StopTerminates ==
    (thread["cb"].pc = "om_join")
        ~> (thread["cb"].pc # "om_join" /\ thread["poller"].pc = "dead")

\* stop() waits in the join while the poller is inside the handler of the
\* USER_ADJUSTMENT it has published, in the settle sleep of a seek-back
C6_Witness ==
    /\ thread["cb"].pc = "om_join"
    /\ thread["poller"].event = "USER_ADJUSTMENT"
    /\ thread["poller"].pc = "settle"
    /\ thread["poller"].wake > now


\* this step is a tick that observes the slider closed after it was open
ClosingTick == MonitorTick /\ state.slider_was_open /\ ~state'.slider_was_open

(***************************************************************************)
(* C7.  With a valid signature and an armed poller, when a tick observes   *)
(* the slider closed after it was open and the last sampled delay is a     *)
(* value v: if the sampled delay has changed while the slider was open,    *)
(* under the signature in force, and v differs from the stored offset of   *)
(* the signature key, the stored offset becomes v and USER_ADJUSTMENT is   *)
(* published by this tick (once); if v equals the stored offset, nothing   *)
(* is stored and nothing is published.                                     *)
(***************************************************************************)
C7_CommitOnClose ==
    [][(/\ ClosingTick
        /\ validate_stream_info(info)
        /\ convert_delay_to_ms(state.last_audio_delay) # None)
          => LET v == Val(convert_delay_to_ms(state.last_audio_delay))
                 key == get_setting_id(info)
             IN  /\ (hist.moved /\ v # get_setting_integer(settings, key))
                        => /\ get_setting_integer(settings', key) = v
                           /\ thread'["poller"].event = "USER_ADJUSTMENT"
                 /\ v = get_setting_integer(settings, key)
                        => /\ settings' = settings
                           /\ thread'["poller"].event = NoEvent]_vars


\* the stream info is a fully known signature with its HDR type enabled, a
\* stored offset for its key and a valid player id
KnownSignature ==
    /\ ~HasUnknown(info)
    /\ get_setting_boolean(settings, "enable_" \o info.hdr_type)
    /\ get_setting_id(info) \in DOMAIN settings
    /\ info.player_id # -1

\* the resume seek-back is enabled with a positive duration, no cooldown in force
ResumeSeekDue ==
    /\ get_setting_boolean(settings, "enable_seek_back_resume")
    /\ get_setting_integer(settings, "seek_back_resume_seconds") > 0
    /\ now - seek_state.last_seek_time >= CooldownMs

IsResumeSeek(cmd) ==
    /\ cmd.method = "Player.Seek"
    /\ cmd.value = [num |-> 0 - get_setting_integer(settings, "seek_back_resume_seconds"),
                    den |-> 1]

(***************************************************************************)
(* C8.  While AV_STARTED is handled with a known signature (HDR type       *)
(* enabled, offset stored, valid player id): apply_audio_offset issues     *)
(* exactly one Player.SetAudioDelay, of the stored ms / 1000, as the first *)
(* command of the event; with the resume seek-back due, on_av_started      *)
(* issues no seek at once and sleeps SettleMs; the seek after the sleep is *)
(* one relative seek of minus the configured seconds, not earlier than     *)
(* SettleMs after the decision; and the event never has more than one      *)
(* SetAudioDelay or one seek, the seek being the last command.             *)
(***************************************************************************)
C8_DelayThenSeek ==
    /\ [](thread["cb"].event = "AV_STARTED"
            => /\ Issued(thread["cb"].cmds, "Player.SetAudioDelay") <= 1
               /\ Issued(thread["cb"].cmds, "Player.Seek") <= 1
               /\ \A i \in DOMAIN thread["cb"].cmds :
                     thread["cb"].cmds[i].method = "Player.Seek"
                         => i = Len(thread["cb"].cmds) /\ (KnownSignature => i = 2))
    /\ [][/\ (OffsetApply("cb") /\ thread["cb"].event = "AV_STARTED" /\ KnownSignature)
              => thread'["cb"].cmds =
                     << [method |-> "Player.SetAudioDelay", playerid |-> info.player_id,
                         value |-> [num |-> settings[get_setting_id(info)], den |-> 1000]] >>
          /\ (SeekStarted("cb") /\ KnownSignature /\ ResumeSeekDue)
              => /\ thread'["cb"].pc = "settle"
                 /\ thread'["cb"].wake = now + SettleMs
                 /\ thread'["cb"].cmds = thread["cb"].cmds
          /\ (SeekExecute("cb") /\ thread["cb"].event = "AV_STARTED")
              => /\ now >= thread["cb"].seek.decided_at + SettleMs
                 /\ Len(thread'["cb"].cmds) = Len(thread["cb"].cmds) + 1
                 /\ IsResumeSeek(thread'["cb"].cmds[Len(thread'["cb"].cmds)])]_vars

\* AV_STARTED for hdr10_24_eac3 has been handled to the end: the delay of
\* 120 / 1000 s on player 1, then the seek of -4 s, 2 s after the start
C8_Witness ==
    /\ thread["cb"].event = "AV_STARTED"
    /\ LoopDone("cb")
    /\ get_setting_id(info) = "hdr10_24_eac3"
    /\ Len(thread["cb"].cmds) = 2
    /\ thread["cb"].cmds[1] = [method |-> "Player.SetAudioDelay", playerid |-> 1,
                               value |-> [num |-> 120, den |-> 1000]]
    /\ thread["cb"].cmds[2].method = "Player.Seek"
    /\ thread["cb"].cmds[2].value = [num |-> -4, den |-> 1]
    /\ now >= Val(playback_state.start_time) + SettleMs


\* the handlers of an event in the order AddonManager.start subscribes them:
\* those of OffsetManager.start, then those of SeekBacks.start
SubscriptionOrder(event_name) ==
    CASE event_name = "AV_STARTED" ->
             <<"OffsetManager.on_av_started", "SeekBacks.on_av_started">>
      [] event_name = "ON_AV_CHANGE" ->
             <<"OffsetManager.on_av_change", "SeekBacks.on_av_change">>
      [] event_name \in {"PLAYBACK_STOPPED", "PLAYBACK_ENDED"} ->
             <<"OffsetManager.on_playback_stopped", "SeekBacks.on_playback_stopped">>
      [] event_name = "PLAYBACK_RESUMED" -> <<"SeekBacks.on_av_unpause">>
      [] event_name = "PLAYBACK_PAUSED" -> <<"SeekBacks.on_playback_paused">>
      [] event_name = "USER_ADJUSTMENT" -> <<"SeekBacks.on_user_adjustment">>
      [] OTHER -> <<>>

\* the log is: call and return of the first handlers of the order, in turn,
\* and possibly the call of the next one
InOrder(calls, order) ==
    /\ Len(calls) <= 2 * Len(order)
    /\ \A i \in DOMAIN calls :
          calls[i] = <<IF i % 2 = 1 THEN "call" ELSE "return", order[(i + 1) \div 2]>>

(***************************************************************************)
(* C9.  During a publish the handlers of the event are called in the order *)
(* of their subscription, each one returning before the next is called,    *)
(* and publish leaves its loop and returns only when every one of them has *)
(* been called and has returned.                                           *)
(***************************************************************************)
C9_OrderedFanOut ==
    /\ [](\A t \in Threads :
             thread[t].event # NoEvent
                 => /\ InOrder(thread[t].calls, SubscriptionOrder(thread[t].event))
                    /\ LoopDone(t) => Len(thread[t].calls)
                                          = 2 * Len(SubscriptionOrder(thread[t].event)))
    /\ [][\A t \in Threads :
             (thread[t].event # NoEvent /\ thread'[t].event # thread[t].event)
                 => Len(thread[t].calls) = 2 * Len(SubscriptionOrder(thread[t].event))]_vars

\* publish of AV_STARTED is through its loop: both handlers were called and
\* have returned, OffsetManager's first
C9_Witness ==
    /\ thread["cb"].event = "AV_STARTED"
    /\ LoopDone("cb")
    /\ thread["cb"].calls = << <<"call", "OffsetManager.on_av_started">>,
                               <<"return", "OffsetManager.on_av_started">>,
                               <<"call", "SeekBacks.on_av_started">>,
                               <<"return", "SeekBacks.on_av_started">> >>


(***************************************************************************)
(* Runs with a failing handler: threading.Thread.start() raises            *)
(* RuntimeError (no new thread can be started) inside                      *)
(* ActiveMonitor._start_monitor_thread.  Neither start_active_monitor,     *)
(* manage_active_monitor, _handle_av_event nor publish catches it.         *)
(***************************************************************************)
\* manage_active_monitor starts a monitor and Thread.start() raises: the
\* monitor is initialised and its thread object is set but never started; the
\* exception leaves the handler, the loop of publish, publish and the host
\* callback
StartFails(t) ==
    /\ thread[t].pc = "om_manage"
    /\ should_start_active_monitor(settings, info)
    /\ active_monitor = None
    /\ active_monitor' = Some("ActiveMonitor")
    /\ info' = gather_stream_info(host, settings, new_install)
    /\ settings' = SettingsAfterGather(host, settings, new_install)
    /\ new_install' = FALSE
    /\ state' = initialize_monitoring(settings', info')
    /\ monitor_thread' = Some("unstarted")
    /\ wait_time' = 0
    /\ thread' = [thread EXCEPT ![t] = ThreadAt("idle")]
    /\ hist' = [hist EXCEPT !.stop_returned = FALSE, !.moved = FALSE,
                                                 !.in_settings = FALSE]
    /\ UNCHANGED <<now, envVars, host, playback_state, seek_state>>

\* monitor_thread.join() on a thread that was never started raises
\* RuntimeError: _cleanup_monitoring, stop and stop_active_monitor are left
\* before monitor_thread and active_monitor are reset
JoinFails(t) ==
    /\ thread[t].pc = "om_join"
    /\ monitor_thread = Some("unstarted")
    /\ thread' = [thread EXCEPT ![t] = ThreadAt("idle")]
    /\ UNCHANGED <<now, envVars, host, settings, playback_state, seek_state, info,
                   new_install, monitorVars, hist>>

NextFault ==
    \/ NextLive
    \/ StartFails("cb")
    \/ JoinFails("cb")

SpecFault == InitLive /\ [][NextFault]_vars

(***************************************************************************)
(* C10.  When a handler raises during publish, the loop of publish goes on *)
(* with the handler subscribed next to the same event (so every later      *)
(* handler is still invoked) and the publisher stays inside publish: the   *)
(* failure does not reach the host callback.                               *)
(***************************************************************************)
C10_FailureContained ==
    [][\A t \in Threads :
          StartFails(t)
              => /\ thread'[t].event = thread[t].event
                 /\ thread'[t].pc = "publish"
                 /\ thread'[t].idx = thread[t].idx + 1]_vars

(***************************************************************************)
(* C11.  The host callback thread never waits the 2 s settle delay of a    *)
(* seek-back: while it is inside the publish of AV_STARTED, ON_AV_CHANGE   *)
(* or PLAYBACK_RESUMED it is never in the sleep of perform_seek_back.      *)
(***************************************************************************)
C11_NoSettleOnCallback ==
    ~(/\ thread["cb"].event \in {"AV_STARTED", "ON_AV_CHANGE", "PLAYBACK_RESUMED"}
      /\ thread["cb"].pc = "settle"
      /\ Sleeping(thread["cb"]))

(***************************************************************************)
(* Resolver runs: StreamInfo.update_stream_info and clear_stream_info      *)
(* against host states with every kind of answer, under every              *)
(* configuration of the first-run flag and the HDR and fps switches.       *)
(***************************************************************************)
\* no primary HDR label, no fallback, an HLG gamut: sdr promoted to hlg
StreamHlgGamut == [StreamA EXCEPT !.hdr = "", !.gamut = "HLG-BT2020"]
\* the primary label echoes its own name; VideoPlayer.HdrType says HDR10+
StreamFallback ==
    [StreamA EXCEPT !.hdr = "Player.Process(video.source.hdr.type)", !.hdr_fallback = "HDR10+"]
\* the player and the audio stream get ready at the second attempt; DTS-HD MA
\* with 8 channels
StreamLate ==
    [StreamA EXCEPT !.player_replies = <<-1, 1>>,
                    !.audio_replies = <<[ok |-> TRUE, codec |-> "none", channels |-> Some(0)],
                                        [ok |-> TRUE, codec |-> "pt-dtshd_ma", channels |-> Some(8)]>>]

\* the audio stream is not ready at the first attempt; then AAC stereo
StreamPcm ==
    [StreamA EXCEPT !.audio_replies = <<[ok |-> TRUE, codec |-> "none", channels |-> Some(0)],
                                        [ok |-> TRUE, codec |-> "aac", channels |-> Some(2)]>>]
\* DTS-HD MA with 6 channels
StreamCore == [StreamA EXCEPT !.audio_replies = AudioReady("dtshd_ma", 6)]
\* the reply names no codec and no channels: audio_stream.get("codec", "unknown")
StreamNoCodec ==
    [StreamA EXCEPT !.audio_replies = <<[ok |-> TRUE, codec |-> "unknown", channels |-> None]>>]
\* nine failing queries each, the tenth answers
StreamLast ==
    [StreamA EXCEPT !.player_replies = [i \in 1..MaxAttempts |-> IF i < MaxAttempts THEN -1 ELSE 1],
                    !.audio_replies =
                        [i \in 1..MaxAttempts |->
                            IF i < MaxAttempts THEN [ok |-> FALSE, codec |-> "none", channels |-> None]
                            ELSE [ok |-> TRUE, codec |-> "eac3", channels |-> Some(6)]]]
\* ten failing queries each; an eleventh would answer
StreamTooLate ==
    [StreamA EXCEPT !.player_replies = [i \in 1..(MaxAttempts + 1) |-> IF i <= MaxAttempts THEN -1 ELSE 1],
                    !.audio_replies =
                        [i \in 1..(MaxAttempts + 1) |->
                            IF i <= MaxAttempts THEN [ok |-> TRUE, codec |-> "none", channels |-> Some(0)]
                            ELSE [ok |-> TRUE, codec |-> "eac3", channels |-> Some(6)]]]

ResolveHosts ==
    {StreamA, StreamB, StreamNoAudio, StreamNoFps, StreamNoHdr, StreamNoPlayer,
     StreamHlgGamut, StreamFallback, StreamLate,
     StreamPcm, StreamCore, StreamNoCodec, StreamLast, StreamTooLate}

\* settings of an addon version that does not define advanced_hlg
NoHlgSettings == [id \in DOMAIN QuietSettings \ {"advanced_hlg"} |-> QuietSettings[id]]

InitResolve ==
    InitWith(OffsetConfigs \cup {NoHlgSettings}, ResolveHosts, {Chars050}, {NoDialog}, MaxTicks)

\* StreamInfo.update_stream_info
UpdateStreamInfo ==
    /\ info' = gather_stream_info(host, settings, new_install)
    /\ settings' = SettingsAfterGather(host, settings, new_install)
    /\ new_install' = FALSE
    /\ hist' = [hist EXCEPT !.resolved = IF Len(@) < 2 THEN Append(@, new_install) ELSE @]
    /\ UNCHANGED <<now, envVars, host, playback_state, seek_state, monitorVars, thread>>

\* StreamInfo.clear_stream_info; the host goes on to any stream
ClearStreamInfo ==
    /\ info' = EmptyInfo
    /\ \E h \in streams : host' = h
    /\ hist' = [hist EXCEPT !.resolved = <<>>]
    /\ UNCHANGED <<now, envVars, settings, new_install, playback_state, seek_state,
                   monitorVars, thread>>

NextResolve ==
    \/ UpdateStreamInfo
    \/ ClearStreamInfo

SpecResolve == InitResolve /\ [][NextResolve]_vars

\* the signature of a resolved stream info
Signature(stream_info) ==
    [hdr_type |-> stream_info.hdr_type, fps_class |-> stream_info.video_fps_type,
     audio_format |-> stream_info.audio_format, player_id |-> stream_info.player_id]

(***************************************************************************)
(* C12.  A resolution against the host state and the configuration that    *)
(* the previous resolution ran against yields the signature (hdr_type,     *)
(* fps class, audio_format, player_id) of the previous one, also when the  *)
(* previous one has cleared the first-run flag.                            *)
(***************************************************************************)
C12_ResolveIdempotent ==
    [][(UpdateStreamInfo /\ Len(hist.resolved) >= 1)
          => Signature(info') = Signature(info)]_vars

\* a stream was resolved twice, the first time with the first-run flag set,
\* with the fps switch of its HDR type off
C12_Witness ==
    /\ hist.resolved = <<TRUE, FALSE>>
    /\ info # EmptyInfo
    /\ info.hdr_type = "hdr10"
    /\ info.video_fps_type = "all"
    /\ ~get_setting_boolean(settings, "new_install")

(***************************************************************************)
(* Delay text runs: the slider shows texts of every kind while the poller  *)
(* samples it.                                                             *)
(***************************************************************************)
Chars8075 == <<"8", ".", "0", "7", "5", " ", "s">>
CharsGarbage == <<"g", "a", "r", "b", "a", "g", "e">>

InitDelay ==
    InitWith({LiveSettings}, {StreamA}, {Chars075, Chars8075, CharsGarbage},
             {NoDialog, AUDIO_SLIDER_DIALOG}, LiveTicks)

SpecDelay == InitDelay /\ [][NextLive]_vars

\* the text is '<signed decimal> s'
IsDelayText(t) ==
    /\ Len(t) > 2
    /\ SubSeq(t, Len(t) - 1, Len(t)) = <<" ", "s">>
    /\ ParseFloat(SubSeq(t, 1, Len(t) - 2)).ok

\* the decimal of a delay text in milliseconds
DecimalMillis(t) ==
    LET f == ParseFloat(SubSeq(t, 1, Len(t) - 2))
    IN  IF f.neg THEN 0 - (f.whole * 1000 + f.milli) ELSE f.whole * 1000 + f.milli

(***************************************************************************)
(* C13.  convert_delay_to_ms of the sampled Player.AudioDelay value is the *)
(* decimal of the text in whole milliseconds when the text is              *)
(* '<signed decimal> s', and None when it is any other text or no text.    *)
(***************************************************************************)
C13_DelayToMs ==
    convert_delay_to_ms(state.last_audio_delay) =
        IF state.last_audio_delay # None /\ IsDelayText(Val(state.last_audio_delay))
        THEN Some(DecimalMillis(Val(state.last_audio_delay)))
        ELSE None

\* the setting ids the addon reads or stores in the resolver runs
ProbedIds ==
    DOMAIN QuietSettings \cup {"enable_unknown", "enable_fps_hlg", "enable_hlg", "hlg_all_eac3"}

(***************************************************************************)
(* C14.  A read of a setting whose underlying get operation fails returns  *)
(* the default to the caller: False from get_setting_boolean, 0 from       *)
(* get_setting_integer and "" from get_setting_string.  A store returns    *)
(* True when the underlying set operation succeeds and False when it       *)
(* fails, and a failed store leaves the settings as they were.             *)
(***************************************************************************)
C14_SettingsNeverFail ==
    \A setting_id \in ProbedIds :
        /\ SettingsGet(settings, setting_id).raised
              => /\ get_setting_boolean(settings, setting_id) = FALSE
                 /\ get_setting_integer(settings, setting_id) = 0
                 /\ get_setting_string(settings, setting_id) = ""
        /\ store_ok(settings, setting_id) = ~SettingsSet(settings, setting_id, FALSE).raised
        /\ ~store_ok(settings, setting_id)
              => store_setting(settings, setting_id, FALSE) = settings

\* the resolver has read enable_fps_hlg, which is not defined, and got False
\* (the fps class is 'all'), and has stored advanced_hlg, which is not
\* defined either
C14_Witness ==
    /\ hist.resolved # <<>>
    /\ info # EmptyInfo
    /\ info.hdr_type = "hlg"
    /\ info.video_fps_type = "all"
    /\ SettingsGet(settings, "enable_fps_hlg").raised
    /\ ~store_ok(settings, "advanced_hlg")

\* the four conditions under which a format change is to be published
ChangeAccepted ==
    /\ playback_state.av_started
    /\ playback_state.start_time # None
    /\ now - Val(playback_state.start_time) >= StartGuardMs
    /\ now - playback_state.last_av_change >= ChangeGuardMs
    /\ ~playback_state.ignore_next_av

(***************************************************************************)
(* C15.  An onAVChange callback publishes ON_AV_CHANGE exactly when        *)
(* playback is active, at least 2 s have passed since the stream start, at *)
(* least 1 s has passed since the last accepted change and ignore_next_av  *)
(* is not set.  When it publishes, last_av_change becomes the current      *)
(* time; when it drops the signal, last_av_change stays.                   *)
(***************************************************************************)
C15_AcceptRule ==
    [][onAVChange =>
          /\ PublishesAvChange <=> ChangeAccepted
          /\ PublishesAvChange => playback_state'.last_av_change = now
          /\ ~PublishesAvChange
                => playback_state'.last_av_change = playback_state.last_av_change]_vars

\* an accepted change is being published, 2 s or more after the stream start
\* and after an earlier accepted change
C15_Witness ==
    /\ thread["cb"].event = "ON_AV_CHANGE"
    /\ thread["cb"].pc = "publish"
    /\ playback_state.last_av_change = now
    /\ playback_state.av_started
    /\ now - Val(playback_state.start_time) >= StartGuardMs

(***************************************************************************)
(* C16.  Every onAVChange callback leaves ignore_next_av cleared,          *)
(* whichever rule drops or accepts the signal: the flag set by a           *)
(* PLAYBACK_SEEK, PLAYBACK_SEEK_CHAPTER or PLAYBACK_SPEED_CHANGED publish  *)
(* does not outlive the next format-change evaluation.                     *)
(***************************************************************************)
C16_FlagConsumedByNext ==
    [][onAVChange => ~playback_state'.ignore_next_av]_vars

\* the Offset Policy's handler of the AV event in progress has returned
OffsetHandled ==
    /\ thread["cb"].event \in AvEvents
    /\ thread["cb"].pc = "publish"
    /\ thread["cb"].idx = 2

\* a monitor exists and its polling thread is alive
PollerRunning == active_monitor # None /\ thread["poller"].pc # "dead"

StopHandled ==
    /\ thread["cb"].event \in {"PLAYBACK_STOPPED", "PLAYBACK_ENDED"}
    /\ thread["cb"].pc = "publish"
    /\ thread["cb"].idx = 2

(***************************************************************************)
(* C18.  When the Offset Policy has handled PLAYBACK_STOPPED or            *)
(* PLAYBACK_ENDED, the stream info is empty, there is no monitor and the   *)
(* polling thread has ended, whatever the state was before.                *)
(***************************************************************************)
C18_StoppedClears ==
    StopHandled =>
        /\ info = EmptyInfo
        /\ active_monitor = None
        /\ monitor_thread = None
        /\ thread["poller"].pc = "dead"

\* PLAYBACK_ENDED was handled with the poller armed: stop() has joined it
C18_Witness ==
    /\ StopHandled
    /\ thread["cb"].event = "PLAYBACK_ENDED"
    /\ hist.stop_returned

\* this step starts a polling thread
StartsLoop == monitor_thread' # None /\ monitor_thread' # monitor_thread

(***************************************************************************)
(* C19.  At most one polling loop is alive: a live polling thread is the   *)
(* thread of the one monitor the Offset Policy holds; a polling thread is  *)
(* started only when there is no monitor and the previous thread has ended *)
(* and was joined; and managing the monitor while one is armed starts no   *)
(* thread and leaves the running one as it is.                             *)
(***************************************************************************)
C19_OneLoop ==
    /\ [](thread["poller"].pc # "dead" => (active_monitor # None /\ monitor_thread # None))
    /\ [][StartsLoop
             => /\ active_monitor = None
                /\ monitor_thread = None
                /\ thread["poller"].pc = "dead"]_vars
    /\ [][(OffsetManage("cb") /\ active_monitor # None
              /\ should_start_active_monitor(settings, info))
             => /\ UNCHANGED <<active_monitor, monitor_thread, state>>
                /\ thread'["poller"] = thread["poller"]]_vars

\* an accepted ON_AV_CHANGE was handled with the poller armed: the monitor
\* started under a signature with unknown audio (no stored delay read) is
\* the one that runs under the new, fully known signature
C19_Witness ==
    /\ OffsetHandled
    /\ thread["cb"].event = "ON_AV_CHANGE"
    /\ PollerRunning
    /\ info.audio_format = "eac3"
    /\ state.last_stored_delay = None

(***************************************************************************)
(* C20.  While AV_STARTED or an accepted ON_AV_CHANGE is handled that      *)
(* found the new_install setting set, no Player.SetAudioDelay command is   *)
(* issued for the event.                                                   *)
(***************************************************************************)
C20_NoDelayOnFirstRun ==
    (thread["cb"].event \in AvEvents /\ hist.first_run)
        => Issued(thread["cb"].cmds, "Player.SetAudioDelay") = 0

(***************************************************************************)
(* Offset application runs: as the Offset Policy runs, with one            *)
(* configuration in which no offset was ever stored for the key of the     *)
(* stream.                                                                 *)
(***************************************************************************)
\* settings that hold no value under hdr10_24_eac3
NoOffsetSettings == [id \in DOMAIN QuietSettings \ {"hdr10_24_eac3"} |-> QuietSettings[id]]

InitApply ==
    InitWith(OffsetConfigs \cup {NoOffsetSettings}, {StreamA, StreamNoPlayer}, {Chars050},
             {NoDialog, AUDIO_SLIDER_DIALOG}, MaxTicks)

SpecApply == InitApply /\ [][NextOffset]_vars

\* the settings hold an offset under the key of the stream info
Learned(st, stream_info) == get_setting_id(stream_info) \in DOMAIN st

(***************************************************************************)
(* C21.  When apply_audio_offset runs and the application is not skipped   *)
(* (no first-run flag, no unknown field, HDR type enabled), it issues one  *)
(* Player.SetAudioDelay of the stored ms / 1000 if an offset is stored     *)
(* under the signature key and player_id is not -1, and no command         *)
(* otherwise: none when no offset was ever stored under the key.           *)
(***************************************************************************)
C21_DelayIffLearned ==
    [][(OffsetApply("cb") /\ should_apply_offset(settings, info))
          => IF Learned(settings, info) /\ info.player_id # -1
             THEN thread'["cb"].cmds =
                      Append(thread["cb"].cmds,
                             SetAudioDelayCmd(info.player_id, settings[get_setting_id(info)]))
             ELSE thread'["cb"].cmds = thread["cb"].cmds]_vars

(***************************************************************************)
(* Seek-back runs: a playback session with the user at the delay slider,   *)
(* under configurations in which each seek-back class is enabled or not,   *)
(* with a positive duration, a duration of 0 or a negative one.            *)
(***************************************************************************)
SeekConfigs ==
    {BaseSettings,
     [BaseSettings EXCEPT !.enable_seek_back_resume = FALSE, !.seek_back_adjust_seconds = 0,
                          !.enable_seek_back_unpause = FALSE, !.seek_back_change_seconds = 0],
     [BaseSettings EXCEPT !.seek_back_resume_seconds = 0, !.enable_seek_back_adjust = FALSE,
                          !.seek_back_unpause_seconds = -1, !.enable_seek_back_change = FALSE]}

InitSeek ==
    InitWith(SeekConfigs, {StreamA}, {Chars050}, {NoDialog, AUDIO_SLIDER_DIALOG}, MaxTicks)

\* the session of Next, which may also end by itself
NextSeek ==
    \/ Next
    \/ onPlayBackEnded

SpecSeek == InitSeek /\ [][NextSeek]_vars

\* the four conditions under which a seek-back of the class is due
ShouldSeek(ss, event_type) ==
    /\ now - ss.last_seek_time >= CooldownMs
    /\ ~ss.paused
    /\ get_setting_boolean(settings, "enable_seek_back_" \o event_type)
    /\ get_setting_integer(settings, "seek_back_" \o event_type \o "_seconds") > 0

\* this step leaves thread t as the decision for the class, taken on the
\* seek state ss, prescribes: in the settle sleep with the configured
\* seconds, or back in the loop of publish; no command is issued yet and
\* last_seek_time stays
Decided(t, ss, event_type) ==
    /\ IF ShouldSeek(ss, event_type)
       THEN /\ thread'[t].pc = "settle"
            /\ thread'[t].seek.event_type = event_type
            /\ thread'[t].seek.seconds =
                   get_setting_integer(settings, "seek_back_" \o event_type \o "_seconds")
       ELSE /\ thread'[t].pc = "publish"
            /\ thread'[t].idx = thread[t].idx + 1
    /\ thread'[t].cmds = thread[t].cmds
    /\ seek_state' = ss
    /\ settings' = settings

(***************************************************************************)
(* C22.  The seek-back decision for a class (resume on AV_STARTED, adjust  *)
(* on ON_AV_CHANGE, unpause on PLAYBACK_RESUMED, change on                 *)
(* USER_ADJUSTMENT) is false when less than 2 s have passed since          *)
(* last_seek_time, when the paused flag is set, when the class is not      *)
(* enabled or when its configured seconds are <= 0; otherwise it is true   *)
(* with the configured seconds.  The decision changes neither the seek     *)
(* state nor the settings.                                                 *)
(***************************************************************************)
C22_SeekDecision ==
    [][\A t \in Threads :
          /\ SeekStarted(t) => Decided(t, [seek_state EXCEPT !.paused = FALSE], "resume")
          /\ SeekChange(t) => Decided(t, seek_state, "adjust")
          /\ SeekUnpaused(t) => Decided(t, [seek_state EXCEPT !.paused = FALSE], "unpause")
          /\ SeekUserAdjustment(t) => Decided(t, seek_state, "change")]_vars

\* an accepted ON_AV_CHANGE was handled with no cooldown in force, not
\* paused, the adjust class enabled with 0 seconds: no seek
C22_Witness ==
    /\ thread["cb"].event = "ON_AV_CHANGE"
    /\ LoopDone("cb")
    /\ now - seek_state.last_seek_time >= CooldownMs
    /\ ~seek_state.paused
    /\ get_setting_boolean(settings, "enable_seek_back_adjust")
    /\ get_setting_integer(settings, "seek_back_adjust_seconds") = 0
    /\ thread["cb"].cmds # <<>>
    /\ Issued(thread["cb"].cmds, "Player.Seek") = 0

(***************************************************************************)
(* C23.  _execute_seek_command issues one Player.Seek and returns: when    *)
(* the command succeeds last_seek_time becomes the current time; when it   *)
(* answers an error or raises, the seek state is left as it was - so the   *)
(* cooldown does not run from the failed attempt - and the handler returns *)
(* to publish without a second attempt.                                    *)
(***************************************************************************)
C23_StampOnSuccessOnly ==
    [][\A t \in Threads :
          /\ SeekExecute(t)
                => /\ Len(thread'[t].cmds) = Len(thread[t].cmds) + 1
                   /\ thread'[t].pc = "publish"
                   /\ thread'[t].idx = thread[t].idx + 1
          /\ SeekCommand(t, TRUE) => seek_state'.last_seek_time = now
          /\ SeekCommand(t, FALSE) => seek_state' = seek_state]_vars

\* the resume seek-back of the playback in progress was the last seek issued
\* and has failed (last_seek_time is still the epoch, and no stop has reset
\* it since: the start time is that of the decision), and an accepted
\* ON_AV_CHANGE, evaluated less than 2 s after the failed attempt, has
\* decided to seek
C23_Witness ==
    /\ thread["cb"].event = "ON_AV_CHANGE"
    /\ thread["cb"].pc = "settle"
    /\ hist.last_seek_decided_at # None
    /\ hist.last_seek_decided_at = playback_state.start_time
    /\ seek_state.last_seek_time = 0
    /\ thread["cb"].seek.decided_at - Val(hist.last_seek_decided_at) < SettleMs + CooldownMs

\* the conditions of the configuration under which a seek-back of the class
\* is due
Configured(event_type) ==
    /\ get_setting_boolean(settings, "enable_seek_back_" \o event_type)
    /\ get_setting_integer(settings, "seek_back_" \o event_type \o "_seconds") > 0

(***************************************************************************)
(* C24.  When SeekBacks handles PLAYBACK_STOPPED or PLAYBACK_ENDED it      *)
(* leaves the paused flag False and last_seek_time 0, and last_seek_time   *)
(* stays 0 until the next seek-back trigger is evaluated.  That trigger    *)
(* (AV_STARTED or PLAYBACK_RESUMED) decides to seek whenever its class is  *)
(* enabled with a positive duration: neither the cooldown nor the paused   *)
(* flag rejects it.                                                        *)
(***************************************************************************)
C24_StopResets ==
    /\ [](hist.since_stop => seek_state.last_seek_time = 0)
    /\ [][\A t \in Threads :
             /\ SeekStopped(t) => seek_state' = [paused |-> FALSE, last_seek_time |-> 0]
             /\ (hist.since_stop /\ SeekStarted(t))
                   => (thread'[t].pc = "settle" <=> Configured("resume"))
             /\ (hist.since_stop /\ SeekUnpaused(t))
                   => (thread'[t].pc = "settle" <=> Configured("unpause"))
             /\ (hist.since_stop /\ (SeekChange(t) \/ SeekUserAdjustment(t)))
                   => (thread'[t].pc = "settle" <=> Configured(thread'[t].seek.event_type))]_vars

\* SeekBacks has handled PLAYBACK_ENDED less than 2 s after a Player.Seek of
\* the playback was issued: the seek state is reset
C24_Witness ==
    /\ thread["cb"].event = "PLAYBACK_ENDED"
    /\ LoopDone("cb")
    /\ hist.since_stop
    /\ hist.last_seek_decided_at # None
    /\ now - Val(hist.last_seek_decided_at) < SettleMs + CooldownMs
    /\ seek_state = [paused |-> FALSE, last_seek_time |-> 0]

(***************************************************************************)
(* Slider runs: the user goes through the audio settings dialog and the    *)
(* delay slider, which shows a delay or no readable text, while streams    *)
(* with a known and with an unknown audio format start, change and stop.   *)
(***************************************************************************)
InitSlider ==
    InitWith({QuietSettings}, {StreamA, StreamNoAudio}, {Chars050, CharsGarbage},
             {NoDialog, AUDIO_SETTINGS_DIALOG, AUDIO_SLIDER_DIALOG}, MaxTicks)

SpecSlider == InitSlider /\ [][NextOffset]_vars

\* the last-processed marker a closing tick compares with: _handle_dialog_state
\* has reset it if the tick finds the settings dialog newly open
MarkerAtClose ==
    IF state'.audio_settings_open /\ ~state.audio_settings_open
    THEN None ELSE state.last_processed_delay

\* the conditions under which a closing tick is to commit the sampled delay
CommitDue ==
    /\ convert_delay_to_ms(state.last_audio_delay) # None
    /\ convert_delay_to_ms(state.last_audio_delay) # MarkerAtClose
    /\ ~HasUnknown(info)
    /\ Val(convert_delay_to_ms(state.last_audio_delay))
           # get_setting_integer(settings, get_setting_id(info))

(***************************************************************************)
(* C25.  A tick that observes the slider closed after it was open stores   *)
(* the last sampled delay under the signature key and publishes            *)
(* USER_ADJUSTMENT if and only if the sample converts to a value v, v      *)
(* differs from the last-processed marker, the stream info has no unknown  *)
(* or missing field, and v differs from the offset stored under the key;   *)
(* otherwise it leaves the settings alone and publishes nothing.           *)
(***************************************************************************)
C25_CommitIffDue ==
    [][ClosingTick
          => IF CommitDue
             THEN /\ thread'["poller"].event = "USER_ADJUSTMENT"
                  /\ settings' = [settings EXCEPT ![get_setting_id(info)] =
                                     Val(convert_delay_to_ms(state.last_audio_delay))]
             ELSE /\ thread'["poller"].event = NoEvent
                  /\ settings' = settings]_vars

\* a closing tick has published USER_ADJUSTMENT for -50 ms, stored under the
\* key of the stream info
C25_Witness ==
    /\ thread["poller"].event = "USER_ADJUSTMENT"
    /\ thread["poller"].pc = "publish"
    /\ thread["poller"].idx = 1
    /\ ~state.slider_was_open
    /\ convert_delay_to_ms(state.last_audio_delay) = Some(-50)
    /\ ~HasUnknown(info)
    /\ get_setting_integer(settings, get_setting_id(info)) = -50

\* this tick finds the audio settings dialog newly open and resets the
\* last-processed marker
ResetsMarker == MonitorTick /\ state'.audio_settings_open /\ ~state.audio_settings_open

(***************************************************************************)
(* C26.  While the user stays in the audio settings dialog and the slider  *)
(* opened from it, no tick resets a last-processed marker that is set; and *)
(* a tick that observes the slider closed with the sampled delay equal to  *)
(* the marker stores nothing and publishes nothing.                        *)
(***************************************************************************)
C26_ResetOnEntryOnly ==
    [][/\ (hist.in_settings /\ state.last_processed_delay # None) => ~ResetsMarker
       /\ (/\ hist.in_settings
           /\ ClosingTick
           /\ state.last_processed_delay # None
           /\ convert_delay_to_ms(state.last_audio_delay) = state.last_processed_delay)
             => /\ thread'["poller"].event = NoEvent
                /\ settings' = settings]_vars

(***************************************************************************)
(* Finalizing runs: the closing tick of the poller in the steps in which   *)
(* it reads what it shares with the callback thread.  _validate_stream_info *)
(* reads StreamInfo.info once (active_monitor.py:82) and hands the         *)
(* dictionary on; the key, the stored offset and the store follow          *)
(* (222-226) while the callback thread may replace or clear                *)
(* StreamInfo.info.                                                        *)
(***************************************************************************)
InitFinalize ==
    InitWith({QuietSettings}, {StreamA, StreamB, StreamNoAudio}, {Chars075},
             {NoDialog, AUDIO_SLIDER_DIALOG}, MaxTicks)

\* a tick that does not observe the slider closed after it was open
MonitorOpenTick == MonitorTick /\ ~(state.slider_was_open /\ ~state'.slider_was_open)

\* the tick that observes the slider closed after it was open, up to the
\* return of _validate_stream_info in process_audio_delay_change
MonitorClose ==
    /\ thread["poller"].pc = "loop"
    /\ LoopCondition(state)
    /\ ~abortRequested
    /\ \E current_dialog_id \in DialogsNow \ {AUDIO_SLIDER_DIALOG} :
          LET s1 == AfterSettingsDialog(state, current_dialog_id)
              current_delay_ms == convert_delay_to_ms(s1.last_audio_delay)
          IN  /\ s1.slider_was_open
              /\ IF IsNewDelay(s1) /\ validate_stream_info(info)
                 THEN /\ state' = [s1 EXCEPT !.slider_was_open = FALSE]
                      /\ thread' = [thread EXCEPT !["poller"].pc = "store",
                                                  !["poller"].local = Some(info)]
                      /\ UNCHANGED wait_time
                 ELSE /\ state' = [s1 EXCEPT !.slider_was_open = FALSE,
                                             !.last_processed_delay =
                                                 IF IsNewDelay(s1) THEN current_delay_ms ELSE @]
                      /\ wait_time' = WaitTime(s1, FALSE)
                      /\ UNCHANGED thread
    /\ hist' = [hist EXCEPT !.moved = MovedAfter(state, state', @),
                            !.in_settings = InSettingsAfter(state', @)]
    /\ UNCHANGED <<now, envVars, host, settings, playback_state, seek_state, info, new_install,
                   active_monitor, monitor_thread>>

\* a process_audio_delay_change that reads StreamInfo.info again for the key
MonitorStoreLive ==
    /\ thread["poller"].pc = "store"
    /\ LET delay_ms == Val(convert_delay_to_ms(state.last_audio_delay))
       IN  IF ~HasUnknown(info)
              /\ delay_ms # get_setting_integer(settings, get_setting_id(info))
           THEN /\ settings' = store_setting(settings, get_setting_id(info), delay_ms)
                /\ thread' = [thread EXCEPT !["poller"] = Publishing(@, "USER_ADJUSTMENT")]
                /\ hist' = [hist EXCEPT !.committed = Some(delay_ms)]
                /\ UNCHANGED <<state, wait_time>>
           ELSE /\ state' = [state EXCEPT !.last_processed_delay = Some(delay_ms)]
                /\ wait_time' = WaitTime(state, FALSE)
                /\ thread' = [thread EXCEPT !["poller"] = ThreadAt("loop")]
                /\ UNCHANGED <<settings, hist>>
    /\ UNCHANGED <<now, envVars, host, playback_state, seek_state, info, new_install,
                   active_monitor, monitor_thread>>

\* process_audio_delay_change from _get_setting_id on, with the dictionary
\* _validate_stream_info has returned, up to the publish of USER_ADJUSTMENT
\* if there is one
MonitorStore ==
    /\ thread["poller"].pc = "store"
    /\ LET stream_info == Val(thread["poller"].local)
           setting_id == get_setting_id(stream_info)
           delay_ms == Val(convert_delay_to_ms(state.last_audio_delay))
       IN  IF delay_ms # get_setting_integer(settings, setting_id)
           THEN /\ settings' = store_setting(settings, setting_id, delay_ms)
                /\ thread' = [thread EXCEPT !["poller"] = Publishing(@, "USER_ADJUSTMENT")]
                /\ hist' = [hist EXCEPT !.committed = Some(delay_ms)]
                /\ UNCHANGED <<state, wait_time>>
           ELSE /\ state' = [state EXCEPT !.last_processed_delay = Some(delay_ms)]
                /\ wait_time' = WaitTime(state, FALSE)
                /\ thread' = [thread EXCEPT !["poller"] = ThreadAt("loop")]
                /\ UNCHANGED <<settings, hist>>
    /\ UNCHANGED <<now, envVars, host, playback_state, seek_state, info, new_install,
                   active_monitor, monitor_thread>>

NextFinalize ==
    \/ onAVStarted
    \/ onAVChange
    \/ onPlayBackStopped
    \/ OffsetUpdate("cb")
    \/ OffsetApply("cb")
    \/ OffsetManage("cb")
    \/ OffsetStopped("cb")
    \/ OffsetStopMonitor("cb")
    \/ OffsetJoined("cb")
    \/ SeekStarted("cb")
    \/ SeekChange("cb")
    \/ SeekStopped("cb")
    \/ SeekUserAdjustment("poller")
    \/ PublishReturn
    \/ MonitorOpenTick
    \/ MonitorClose
    \/ MonitorStore
    \/ MonitorExit
    \/ MonitorPublished
    \/ Tick

SpecFinalize == InitFinalize /\ [][NextFinalize]_vars

\* the keys of the signatures the streams resolve to
ResolvedKeys ==
    {get_setting_id(gather_stream_info(h, settings, FALSE)) : h \in streams}

\* the id names no unknown field
KnownKey(setting_id) ==
    \E h \in valid_hdr_types, f \in {"23", "24", "25", "29", "30", "50", "59", "60", "all"},
       a \in valid_audio_formats : setting_id = h \o "_" \o f \o "_" \o a

(***************************************************************************)
(* C27.  The poller stores an offset only at the end of a closing tick,    *)
(* only under the key of the stream info dictionary the tick has           *)
(* validated: that dictionary is one resolved stream info, it has none of  *)
(* hdr_type, video_fps_type and audio_format unknown or missing, and the   *)
(* key is built from its three fields - also when the callback thread has  *)
(* replaced or cleared StreamInfo.info in between.  No other step of the   *)
(* poller changes the settings.                                            *)
(***************************************************************************)
C27_KeyOfOneSignature ==
    /\ [](thread["poller"].pc = "store"
            => /\ ~HasUnknown(Val(thread["poller"].local))
               /\ get_setting_id(Val(thread["poller"].local)) \in ResolvedKeys
               /\ KnownKey(get_setting_id(Val(thread["poller"].local))))
    /\ [][MonitorStore
             => \/ settings' = settings
                \/ settings' =
                       [settings EXCEPT ![get_setting_id(Val(thread["poller"].local))] =
                           Val(convert_delay_to_ms(state.last_audio_delay))]]_vars
    /\ [][(MonitorOpenTick \/ MonitorClose \/ MonitorPublished \/ MonitorExit
             \/ SeekUserAdjustment("poller"))
             => settings' = settings]_vars

\* the poller has stored -75 ms under the key of the stream info it validated,
\* hdr10_24_eac3, after the callback thread has replaced StreamInfo.info by
\* that of another stream
C27_Witness ==
    /\ thread["poller"].event = "USER_ADJUSTMENT"
    /\ thread["poller"].local # None
    /\ info # EmptyInfo
    /\ get_setting_id(info) # "hdr10_24_eac3"
    /\ get_setting_id(Val(thread["poller"].local)) = "hdr10_24_eac3"
    /\ settings["hdr10_24_eac3"] = -75
    /\ hist.committed = Some(-75)

(***************************************************************************)
(* The frame rate class                                                    *)
(***************************************************************************)
\* the class the frame rate text and the per-rate switch of the HDR type
\* stand for: unknown for a text that is no number or no standard rate, all
\* for a standard rate with the switch off, the rate otherwise
RateClass(fps_info, hdr_type, st) ==
    LET fps_value == FpsValue(fps_info)
    IN  IF fps_value = None \/ Val(fps_value) \notin valid_fps_types THEN "unknown"
        ELSE IF hdr_type # "unknown" /\ ~get_setting_boolean(st, "enable_fps_" \o hdr_type)
             THEN "all"
        ELSE ToString(Val(fps_value))

(***************************************************************************)
(* C28.  The video_fps_type of a resolved stream info is unknown when the  *)
(* frame rate text is no number or its truncated integer is none of 23,    *)
(* 24, 25, 29, 30, 50, 59, 60; it is all when the truncated rate is one of *)
(* these and enable_fps_<hdr_type> is off for the resolved, known HDR      *)
(* type; it is the truncated rate otherwise.  A rate that is not standard  *)
(* never resolves to all.                                                  *)
(***************************************************************************)
C28_FpsClassRule ==
    info # EmptyInfo
        => info.video_fps_type = RateClass(host.fps, info.hdr_type, settings)

(***************************************************************************)
(* Audio classification                                                    *)
(***************************************************************************)
\* the attempts of get_audio_info whose reply names an audio stream that is
\* ready
ReadyAttempts(h) ==
    {i \in 1..MaxAttempts :
        /\ ReplyAt(h.audio_replies, i).ok
        /\ RemovePassthroughPrefix(ReplyAt(h.audio_replies, i).codec) # "none"}

\* the reply get_audio_info returns on
FirstReady(h) ==
    ReplyAt(h.audio_replies, CHOOSE i \in ReadyAttempts(h) : \A j \in ReadyAttempts(h) : i <= j)

(***************************************************************************)
(* C29.  The audio_format of a resolved stream info is never none: a reply *)
(* with codec none is passed over for the next attempt.  It is dtsx when   *)
(* the reply taken reports dtshd_ma with more than 6 channels, pcm when    *)
(* the reply reports another codec that is neither a known one nor         *)
(* unknown, and the reported known codec otherwise; it is always a known   *)
(* codec or unknown.                                                       *)
(***************************************************************************)
C29_AudioClassification ==
    info # EmptyInfo
        => /\ info.audio_format \in valid_audio_formats \cup {"unknown"}
           /\ info.audio_format # "none"
           /\ ReadyAttempts(host) # {}
                => LET r == FirstReady(host)
                       codec == RemovePassthroughPrefix(r.codec)
                       many == r.channels # None /\ Val(r.channels) > 6
                   IN  /\ (codec = "dtshd_ma" /\ many) => info.audio_format = "dtsx"
                       /\ (codec \notin valid_audio_formats /\ codec # "unknown")
                              => info.audio_format = "pcm"
                       /\ (codec \in valid_audio_formats /\ ~(codec = "dtshd_ma" /\ many))
                              => info.audio_format = codec

\* AAC stereo, reported at the second attempt after a codec of none, is
\* resolved to pcm
C29_Witness ==
    /\ info # EmptyInfo
    /\ host = StreamPcm
    /\ ReplyAt(host.audio_replies, 1).codec = "none"
    /\ FirstReady(host).codec = "aac"
    /\ info.audio_format = "pcm"

(***************************************************************************)
(* Bounded retrieval                                                       *)
(***************************************************************************)
\* the attempts of get_player_id whose reply names a player
ValidAttempts(h) == {i \in 1..MaxAttempts : ReplyAt(h.player_replies, i) # -1}

\* the player id is that of the first of the ten queries that names one,
\* and -1 exactly when none of the ten does
PlayerWithinAttempts ==
    /\ info.player_id = -1 <=> ValidAttempts(host) = {}
    /\ ValidAttempts(host) # {}
         => info.player_id =
                ReplyAt(host.player_replies,
                        CHOOSE i \in ValidAttempts(host) : \A j \in ValidAttempts(host) : i <= j)

(***************************************************************************)
(* C30 as stated.  Each retrieval looks at no more than 10 replies; the    *)
(* player id is the first valid one among them; player_id is -1 exactly    *)
(* when none of the 10 queries names a player, and audio_format is unknown *)
(* exactly when none of the 10 queries finds the audio stream ready; a     *)
(* stream info is resolved whatever the queries do.                        *)
(***************************************************************************)
C30_SentinelIffAllFail ==
    info # EmptyInfo
        => /\ PlayerWithinAttempts
           /\ info.audio_format = "unknown" <=> ReadyAttempts(host) = {}

(***************************************************************************)
(* C30 as amended.  Each retrieval looks at no more than 10 replies; the   *)
(* player id is the first valid one among them, and -1 exactly when none   *)
(* of the 10 queries names a player; audio_format is unknown when none of  *)
(* the 10 queries finds the audio stream ready, and otherwise only when    *)
(* the first ready reply itself names no codec or the codec unknown; a     *)
(* stream info is resolved whatever the queries do.                        *)
(***************************************************************************)
C30_BoundedRetrieval ==
    /\ [](info # EmptyInfo
            => /\ PlayerWithinAttempts
               /\ info.audio_format = "unknown"
                    <=> \/ ReadyAttempts(host) = {}
                        \/ RemovePassthroughPrefix(FirstReady(host).codec) = "unknown")
    /\ [][UpdateStreamInfo => info' # EmptyInfo]_vars

\* nine queries of each kind have failed and the tenth has answered: player 1,
\* eac3
C30_Witness ==
    /\ info # EmptyInfo
    /\ host = StreamLast
    /\ ValidAttempts(host) = {MaxAttempts}
    /\ ReadyAttempts(host) = {MaxAttempts}
    /\ info.player_id = 1
    /\ info.audio_format = "eac3"

(***************************************************************************)
(* What a resolution writes                                                *)
(***************************************************************************)
\* the settings a step has written: those whose stored value has changed
Written == {id \in DOMAIN settings : settings'[id] # settings[id]}

(***************************************************************************)
(* C31.  An update of the stream info writes no setting but                *)
(* platform_hdr_full and advanced_hlg: new_install, the offsets and every  *)
(* other setting keep their stored values, and no setting appears or       *)
(* disappears.                                                             *)
(***************************************************************************)
C31_ResolveWritesFlagsOnly ==
    [][UpdateStreamInfo
          => /\ DOMAIN settings' = DOMAIN settings
             /\ Written \subseteq {"platform_hdr_full", "advanced_hlg"}]_vars

(***************************************************************************)
(* The polling rate and the end of the loop: a playback session in which   *)
(* Kodi may request the addon to stop.                                     *)
(***************************************************************************)
\* Kodi requests abort: abortRequested() is true and every waitForAbort
\* returns True from now on
HostAbort ==
    /\ ~abortRequested
    /\ hist' = [hist EXCEPT !.aborted = TRUE]
    /\ UNCHANGED <<now, envVars, host, settings, playback_state, seek_state, info, new_install,
                   monitorVars, thread>>

NextPoll ==
    \/ NextOffset
    \/ HostAbort

InitPoll ==
    InitWith({QuietSettings}, {StreamA}, {Chars050},
             {NoDialog, AUDIO_SETTINGS_DIALOG, AUDIO_SLIDER_DIALOG}, MaxTicks)

SpecPoll == InitPoll /\ [][NextPoll]_vars

\* a pass of the loop body ends: _handle_dialog_state returns the wait
TickEnds ==
    \/ MonitorTick /\ thread'["poller"].pc = "loop"
    \/ MonitorPublished

(***************************************************************************)
(* C32.  The wait a tick hands to waitForAbort is 250 ms when, after the   *)
(* tick, audio_settings_open is set or the tick has found the slider open, *)
(* and 1000 ms otherwise.  When the wait reports that Kodi shuts down the  *)
(* thread ends: no tick follows, and the monitor state, the settings and   *)
(* the event bus are left as they are.                                     *)
(***************************************************************************)
C32_PollRate ==
    /\ [][TickEnds
             => wait_time' = IF state'.audio_settings_open \/ state'.slider_was_open
                             THEN 250 ELSE 1000]_vars
    /\ [][abortRequested
             => /\ ~MonitorTick
                /\ (thread["poller"].pc = "loop" /\ thread'["poller"] # thread["poller"])
                      => /\ thread'["poller"].pc = "dead"
                         /\ state' = state
                         /\ settings' = settings]_vars

\* the slider was found open outside the settings dialog, the tick has asked
\* for a wait of 250 ms, and Kodi has requested abort during the wait
C32_Witness ==
    /\ thread["poller"].pc = "loop"
    /\ abortRequested
    /\ wait_time = 250
    /\ state.slider_was_open
    /\ ~state.audio_settings_open
    /\ LoopCondition(state)

(***************************************************************************)
(* Seek-backs and the other thread                                         *)
(***************************************************************************)
(***************************************************************************)
(* C33.  No Player.Seek is issued while the paused flag is set: a          *)
(* seek-back that was decided before PLAYBACK_PAUSED was handled, and      *)
(* whose 2000 ms settle delay ends after it, issues no command.            *)
(***************************************************************************)
C33_NoSeekWhilePaused ==
    [][\A t \in Threads : SeekExecute(t) => ~seek_state.paused]_vars

(***************************************************************************)
(* C34.  At most one seek-back is in progress: the callback thread and the *)
(* polling thread are never both between a decision to seek (the cooldown  *)
(* check passed) and the Player.Seek that records last_seek_time.          *)
(***************************************************************************)
C34_OneSeekBackAtATime ==
    ~(thread["cb"].pc = "settle" /\ thread["poller"].pc = "settle")

(***************************************************************************)
(* C35.  When the publish of PLAYBACK_STOPPED or PLAYBACK_ENDED returns,   *)
(* last_seek_time is 0 and no seek-back of the polling thread is pending:  *)
(* the stop handler of OffsetManager, called first, has joined the poller  *)
(* before that of SeekBacks resets the cooldown.  last_seek_time then      *)
(* stays 0 until a seek-back triggered by a later event succeeds.          *)
(***************************************************************************)
C35_ResetAfterJoin ==
    /\ [][\A t \in Threads :
             SeekStopped(t) => thread["poller"].pc = "dead"]_vars
    /\ []((LoopDone("cb") /\ thread["cb"].event \in {"PLAYBACK_STOPPED", "PLAYBACK_ENDED"})
            => /\ seek_state.last_seek_time = 0
               /\ thread["poller"].pc = "dead")
    /\ [](hist.since_stop => \A t \in Threads : thread[t].pc # "settle")
    /\ [][\A t \in Threads : SeekCommand(t, TRUE) => ~hist.since_stop]_vars

\* the publish of PLAYBACK_STOPPED, begun before the horizon, is about to
\* return after it: the join has waited for the settle delay of a seek-back on
\* the polling thread, whose Player.Seek was issued at this time, and
\* last_seek_time is 0
C35_Witness ==
    /\ LoopDone("cb")
    /\ thread["cb"].event = "PLAYBACK_STOPPED"
    /\ now >= horizon
    /\ hist.last_seek_decided_at = Some(now - SettleMs)
    /\ thread["poller"].pc = "dead"
    /\ seek_state.last_seek_time = 0

(***************************************************************************)
(* The debouncer across playback sessions                                  *)
(***************************************************************************)
\* Kodi calls back about a playback only while one is running: every callback
\* but onAVStarted comes between an onAVStarted and the onPlayBackStopped or
\* onPlayBackEnded that follows it
NextSession ==
    \/ onAVStarted
    \/ playback_state.av_started /\ onAVChange
    \/ playback_state.av_started /\ onPlayBackStopped
    \/ playback_state.av_started /\ onPlayBackEnded
    \/ playback_state.av_started /\ onPlayBackPaused
    \/ playback_state.av_started /\ onPlayBackResumed
    \/ playback_state.av_started /\ onPlayBackSeek
    \/ playback_state.av_started /\ onPlayBackSeekChapter
    \/ playback_state.av_started /\ onPlayBackSpeedChanged
    \/ OffsetUpdate("cb")
    \/ OffsetApply("cb")
    \/ OffsetManage("cb")
    \/ OffsetStopped("cb")
    \/ OffsetStopMonitor("cb")
    \/ SeekStarted("cb")
    \/ SeekChange("cb")
    \/ SeekUnpause("cb")
    \/ SeekUnpaused("cb")
    \/ SeekPaused("cb")
    \/ SeekStopped("cb")
    \/ PublishReturn
    \/ Tick

SpecSession == InitBus /\ [][NextSession]_vars

(***************************************************************************)
(* C36.  A playback that starts after PLAYBACK_STOPPED or PLAYBACK_ENDED   *)
(* starts with ignore_next_av cleared: after its AV_STARTED callback the   *)
(* flag is false, so that a seek, seek-chapter or speed-change event of    *)
(* the playback before drops no AV change of the new one.                  *)
(***************************************************************************)
C36_FlagNotCarriedOver ==
    [][(onAVStarted /\ hist.since_stop) => ~playback_state'.ignore_next_av]_vars

(***************************************************************************)
(* The store and the announcement                                          *)
(***************************************************************************)
(***************************************************************************)
(* C37.  When the poller publishes USER_ADJUSTMENT, the setting of the     *)
(* stream's key holds the value the user has committed: a tick whose store *)
(* has failed publishes nothing.                                           *)
(***************************************************************************)
C37_PublishedOnlyIfStored ==
    [][(MonitorTick /\ thread'["poller"].event = "USER_ADJUSTMENT")
          => /\ store_ok(settings, get_setting_id(info))
             /\ SettingsGet(settings', get_setting_id(info)).value
                    = convert_delay_to_ms(state.last_audio_delay)]_vars

=============================================================================
